---- MODULE Spec2Model ----
(***************************************************************************)
(* A state-machine model of breeze's EntityManager                         *)
(* (src/src/a50_entityManager.js): the identity-mapped entity cache, the   *)
(* attach / detach protocol, import, and the save pipeline.                *)
(*                                                                         *)
(* Every public operation of the manager runs to completion on the single  *)
(* JavaScript thread, so each is one action.  The only asynchrony is the   *)
(* transport call of saveChanges: a dispatched save stays in `saves` until *)
(* the action SaveSuccess or SaveFail settles it.                          *)
(*                                                                         *)
(* Collaborators whose code is not part of a50_entityManager.js            *)
(* (EntityGroup, EntityAspect, the property setter, the key generator, the *)
(* save-merge visitor) are modelled from the written design and are marked *)
(* as such where they are defined.                                         *)
(***************************************************************************)
EXTENDS Integers, Sequences, FiniteSets, TLC

(***************************************************************************)
(* Bounds of the model.                                                    *)
(***************************************************************************)
\* highest value of the numeric concurrency property an entity may reach
MaxRowVer == 2
\* number of temporary keys one key generator may hand out
MaxTempKeys == 2
\* number of saves that may be dispatched and unsettled at the same time
MaxInFlight == 2
\* number of operations the application and the transport run in one behaviour
MaxOps == 4
\* highest key the server assigns
MaxRealKey == 3

(***************************************************************************)
(* The universe: two managers sharing one metadata store; the entity type  *)
(* Customer(id: auto-generated key, rowVer: numeric concurrency property)  *)
(* with two entity objects held by the application and one that the        *)
(* manager itself instantiates (createEntity, import, save merge); and the *)
(* entity type Order(id: key set by the application, customerId: foreign   *)
(* key to Customer) with two objects held by the application and one the   *)
(* manager instantiates.  The navigation properties between the two types  *)
(* are Order.customer and Customer.orders; which of them the metadata      *)
(* declares is the navigation shape.  The entity type                      *)
(* OrderDetail(id, productId: a two-part key set by the application) has   *)
(* one object held by the application.                                     *)
(***************************************************************************)
Mgrs == {"em1", "em2"}
NoMgr == "none"
UserEnts == {"u1", "u2"}
PoolEnts == {"p1"}
OrderEnts == {"o1", "o2"}
OrderPoolEnts == {"q1"}
DetailEnts == {"d1"}
Ents == UserEnts \cup PoolEnts \cup OrderEnts \cup OrderPoolEnts \cup DetailEnts
Null == "null"

Types == {"Customer", "Order"}

\* the navigation shapes: Order.customer with the scalar inverse Customer.orders,
\* Order.customer with the collection inverse Customer.orders, Order.customer
\* alone, and the collection Customer.orders alone
NavShapes == {"biScalar", "biCollection", "uniChild", "uniParent"}

\* EntityState enum
Detached == "Detached"
Added == "Added"
Unchanged == "Unchanged"
Modified == "Modified"
Deleted == "Deleted"
AttachedStates == {Added, Unchanged, Modified, Deleted}
ChangedStates == {Added, Modified, Deleted}

\* MergeStrategy enum
Disallowed == "Disallowed"
OverwriteChanges == "OverwriteChanges"
PreserveChanges == "PreserveChanges"
SkipMerge == "SkipMerge"
MergeStrategies == {Disallowed, OverwriteChanges, PreserveChanges, SkipMerge}

\* the default value of the Int32 key property: a key that is "not set"
DefaultKey == 0
\* the key values an application gives to the entities it creates
UserKeys == {DefaultKey, 1}
\* the keys a server assigns
RealKeys == 1..MaxRealKey
\* the values rowVer takes, and those the application writes to it
RowVers == 0..MaxRowVer
UserRowVers == {0, 1}

VARIABLES
  created,            \* entity objects that exist
  hasAspect,          \* entity.entityAspect exists
  entityManager,      \* aspect.entityManager (NoMgr when null)
  entityState,        \* aspect.entityState
  id,                 \* the key property of the entity
  rowVer,             \* the concurrency property of the entity
  originalValues,     \* aspect.originalValues: property name -> value
  isBeingSaved,       \* aspect.isBeingSaved
  hasTempKey,         \* aspect.hasTempKey
  validationErrors,   \* aspect._validationErrors, by origin
  _entityGroupMap,    \* manager._entityGroupMap: type -> index of <<key, entity>>
  _hasChanges,        \* manager._hasChanges
  _hasChangesAction,  \* manager._hasChangesAction: the entity it will publish, or Null
  isLoading,          \* manager.isLoading
  _inKeyFixup,        \* manager._inKeyFixup
  _pendingPubs,       \* manager._pendingPubs: null (not active), or the queued closures
  keyGenerator,       \* the temp keys the manager's current generator has handed out
  saves,              \* dispatched, unsettled saves
  customerId,         \* the foreign key property of an Order
  productId,          \* the second key property of an OrderDetail
  customer,           \* the navigation property Order.customer (Null when unset)
  orders,             \* the navigation property Customer.orders, as the array it is
  _unattachedChildrenMap, \* manager._unattachedChildrenMap: the set of its tuples
  navShape,           \* the navigation properties the metadata declares
  handedOut,          \* how often each temp key was handed out by a manager, ever
  opCount,            \* operations run so far
  lastOp              \* the operation just run: its arguments, outcome and publications

vars == <<created, hasAspect, entityManager, entityState, id, rowVer, originalValues,
          isBeingSaved, hasTempKey, validationErrors, _entityGroupMap, _hasChanges,
          _hasChangesAction, isLoading, _inKeyFixup, _pendingPubs, keyGenerator, saves,
          customerId, productId, customer, orders, _unattachedChildrenMap, navShape,
          handedOut, opCount, lastOp>>

\* the record of a dispatched save, and the value that stands for "no save"
NoSave ==
  [id |-> 0, mgr |-> NoMgr, entitiesToSave |-> {}, allowConcurrentSaves |-> FALSE,
   sent |-> [e \in {} |-> 0], at |-> 0,
   pre |-> [entityState |-> [e \in {} |-> 0], rowVer |-> [e \in {} |-> 0],
            id |-> [e \in {} |-> 0], cached |-> {}, hasChanges |-> FALSE]]

\* an EntityQuery with its resolved query options; a count that is not set
\* is <<>>, a count n is <<n>>
NoQuery ==
  [entityType |-> "", where |-> FALSE, orderBy |-> FALSE, skipCount |-> <<>>,
   takeCount |-> <<>>, select |-> FALSE, inlineCountEnabled |-> FALSE,
   includeDeleted |-> FALSE, mergeStrategy |-> Null]
\* what executeQueryLocallyCore returns; inlineCount <<>> is undefined
NoResult == [results |-> <<>>, inlineCount |-> <<>>]

\* the program state as one value, threaded through the statements of a handler
Cur ==
  [created |-> created, hasAspect |-> hasAspect, entityManager |-> entityManager,
   entityState |-> entityState, id |-> id, rowVer |-> rowVer,
   originalValues |-> originalValues, isBeingSaved |-> isBeingSaved,
   hasTempKey |-> hasTempKey, validationErrors |-> validationErrors,
   _entityGroupMap |-> _entityGroupMap, _hasChanges |-> _hasChanges,
   _hasChangesAction |-> _hasChangesAction, isLoading |-> isLoading,
   _inKeyFixup |-> _inKeyFixup, _pendingPubs |-> _pendingPubs,
   keyGenerator |-> keyGenerator, saves |-> saves,
   customerId |-> customerId, productId |-> productId,
   customer |-> customer, orders |-> orders,
   _unattachedChildrenMap |-> _unattachedChildrenMap, navShape |-> navShape,
   pubs |-> <<>>, threw |-> FALSE, ret |-> Null,
   callbacks |-> <<>>, error |-> Null, adapterCalled |-> FALSE, promise |-> Null,
   saveId |-> 0, stuck |-> FALSE, clock |-> opCount, settled |-> NoSave,
   minted |-> <<>>, tempKeyMap |-> {}, seen |-> <<>>, remapped |-> {},
   inProcess |-> {}, entitiesToLink |-> <<>>, keyMappings |-> {}, steps |-> <<>>,
   running |-> <<>>, scopes |-> 0, enqueued |-> <<>>, delivered |-> <<>>,
   loadingLog |-> <<>>, result |-> NoResult, drifted |-> {}]

NoValues == [p \in {} |-> 0]
\* _pendingPubs when it is null
NoPendingPubs == [active |-> FALSE, fns |-> <<>>]
TypeOf(e) ==
  IF e \in OrderEnts \cup OrderPoolEnts THEN "Order"
  ELSE IF e \in DetailEnts THEN "OrderDetail" ELSE "Customer"

(***************************************************************************)
(* Event publication.  A notification is <<action, entity>>; the entity is *)
(* Null for a cache-wide event.  hasChangesChanged is a second event of    *)
(* the manager and is recorded in the same log.                            *)
(***************************************************************************)
\* what a subscriber that looks at the cache can find: an Order of the manager
\* whose foreign key holds a temp value that the running key fixup has already
\* replaced in the key of the Customer
StaleFk(s) ==
  \E km \in s.remapped, o \in OrderEnts \cup OrderPoolEnts :
    s.entityManager[o] = km[1] /\ s.customerId[o] = km[2]

publish(s, action, e) ==
  [s EXCEPT !.pubs = Append(@, <<action, e>>), !.seen = Append(@, StaleFk(s))]

(***************************************************************************)
(* EntityGroup: the per-type index.  Modelled from the design (section     *)
(* 4.1): the group's own code is not part of a50_entityManager.js.         *)
(***************************************************************************)
\* the entities a group holds
GroupEntities(s, m, t) ==
  IF t \in DOMAIN s._entityGroupMap[m]
  THEN {pr[2] : pr \in s._entityGroupMap[m][t]}
  ELSE {}

\* every entity some group of the manager holds
CachedEntities(s, m) == UNION {GroupEntities(s, m, t) : t \in DOMAIN s._entityGroupMap[m]}

\* group.findEntityByKey: the entity indexed under key k, or Null
GroupFindEntityByKey(s, m, t, k) ==
  IF t \in DOMAIN s._entityGroupMap[m] /\ \E pr \in s._entityGroupMap[m][t] : pr[1] = k
  THEN (CHOOSE pr \in s._entityGroupMap[m][t] : pr[1] = k)[2]
  ELSE Null

\* group.hasChanges
GroupHasChanges(s, m, t) == \E e \in GroupEntities(s, m, t) : s.entityState[e] \in ChangedStates

\* group.getChanges
GroupGetChanges(s, m, t) == {e \in GroupEntities(s, m, t) : s.entityState[e] \in ChangedStates}

\* group.detachEntity: drop the entity from the index
GroupDetachEntity(s, m, e) ==
  [s EXCEPT !._entityGroupMap[m] =
     [t \in DOMAIN @ |-> {pr \in @[t] : pr[2] # e}]]

(***************************************************************************)
(* hasChanges bookkeeping of the manager.                                  *)
(***************************************************************************)
_hasChangesCore(s, m) == \E t \in DOMAIN s._entityGroupMap[m] : GroupHasChanges(s, m, t)

\* value is "true", "false" or "null" (recompute)
_setHasChanges(s, m, value) ==
  LET hc == IF value = "null" THEN _hasChangesCore(s, m) ELSE value = "true"
      hadChanges == s._hasChanges[m]
      s1 == [s EXCEPT !._hasChanges[m] = hc]
      s2 == IF hc # hadChanges THEN publish(s1, "HasChangesChanged", Null) ELSE s1
  IN [s2 EXCEPT !._hasChangesAction[m] = Null]

\* the deferred closure stored in _hasChangesAction, run for the entity it captured
RunHasChangesAction(s, m) ==
  LET e == s._hasChangesAction[m]
  IN IF e = Null THEN s
     ELSE publish(_setHasChanges(s, m, "null"), "EntityStateChange", e)

_notifyStateChange(s, m, e, needsSave) ==
  IF needsSave
  THEN publish(IF ~s._hasChanges[m] THEN _setHasChanges(s, m, "true") ELSE s,
               "EntityStateChange", e)
  ELSE IF s._hasChanges[m]
       THEN IF s.isLoading[m]
            THEN [s EXCEPT !._hasChangesAction[m] = IF @ = Null THEN e ELSE @]
            ELSE publish(_setHasChanges(s, m, "null"), "EntityStateChange", e)
       ELSE publish(s, "EntityStateChange", e)

hasChanges(s, m) == IF ~s._hasChanges[m] THEN FALSE ELSE s._hasChanges[m]

(***************************************************************************)
(* EntityAspect and the property setter.  Modelled from the design         *)
(* (sections 3 and 4.4): their code is not part of a50_entityManager.js.   *)
(***************************************************************************)
\* aspect.getKey().values: the values of the key properties of the entity
KeyValues(s, e) ==
  IF TypeOf(e) = "OrderDetail" THEN <<s.id[e], s.productId[e]>> ELSE <<s.id[e]>>

\* what the group indexes the entity under: the key value, and for a two-part
\* key the two values joined into one
KeyOf(s, e) ==
  IF TypeOf(e) = "OrderDetail"
  THEN s.id[e] * (MaxRealKey + 1) + s.productId[e]
  ELSE s.id[e]

\* aspect.setDetached: false when the entity is in no group; otherwise it leaves
\* the group, Detach is published and the aspect forgets its manager
setDetached(s, e) ==
  LET m == s.entityManager[e]
  IN IF m = NoMgr
     THEN [s EXCEPT !.ret = "false"]
     ELSE LET s1 == GroupDetachEntity(s, m, e)
              s2 == publish(s1, "Detach", e)
          IN [s2 EXCEPT !.entityManager[e] = NoMgr,
                        !.entityState[e] = Detached,
                        !.originalValues[e] = NoValues,
                        !.validationErrors[e] = {},
                        !.ret = "true"]

\* aspect.setUnchanged
setUnchanged(s, e) ==
  LET s1 == [s EXCEPT !.originalValues[e] = NoValues,
                      !.hasTempKey[e] = FALSE,
                      !.entityState[e] = Unchanged]
  IN _notifyStateChange(s1, s.entityManager[e], e, FALSE)

\* aspect.setEntityState: nothing when the state is already the one asked for
setEntityState(s, e, state) ==
  IF s.entityState[e] = state THEN s
  ELSE IF state = Unchanged THEN setUnchanged(s, e)
  ELSE _notifyStateChange([s EXCEPT !.entityState[e] = state], s.entityManager[e], e, TRUE)

\* entity.setProperty for the data property rowVer: the first write to an
\* Unchanged or Modified entity records the original value; a write outside
\* the loading scope promotes Unchanged to Modified
setProperty(s, e, v) ==
  IF s.rowVer[e] = v THEN s
  ELSE
    LET m == s.entityManager[e]
        s1 == IF s.entityState[e] \in {Unchanged, Modified}
                 /\ "rowVer" \notin DOMAIN s.originalValues[e]
              THEN [s EXCEPT !.originalValues[e] =
                      [p \in DOMAIN @ \cup {"rowVer"} |->
                         IF p = "rowVer" THEN s.rowVer[e] ELSE @[p]]]
              ELSE s
        s2 == [s1 EXCEPT !.rowVer[e] = v]
    IN IF m # NoMgr /\ ~s2.isLoading[m] /\ s2.entityState[e] = Unchanged
       THEN _notifyStateChange([s2 EXCEPT !.entityState[e] = Modified], m, e, TRUE)
       ELSE s2

(***************************************************************************)
(* Navigation metadata, the relation array and the setters of the          *)
(* navigation and foreign key properties.  Modelled from the design        *)
(* (sections 4.2, 4.3 and 4.5): the metadata and the property setter are   *)
(* not part of a50_entityManager.js.                                       *)
(***************************************************************************)
\* Order.customer is declared (np.isScalar, its foreign key is customerId)
HasChildToParentNp(s) == s.navShape \in {"biScalar", "biCollection", "uniChild"}
\* Customer.orders is declared
HasParentToChildNp(s) == s.navShape \in {"biScalar", "biCollection", "uniParent"}
\* each of the two is the inverse of the other
Bidirectional(s) == s.navShape \in {"biScalar", "biCollection"}
\* Customer.orders holds one Order, not an array
ParentToChildIsScalar(s) == s.navShape = "biScalar"

Contains(arr, e) == \E i \in 1..Len(arr) : arr[i] = e
Without(arr, e) == SelectSeq(arr, LAMBDA x : x # e)
Count(arr, e) == Len(SelectSeq(arr, LAMBDA x : x = e))

\* a write of the data property customerId: the first write to an Unchanged or
\* Modified entity records the original value; a write outside the loading
\* scope promotes Unchanged to Modified
WriteFk(s, e, v) ==
  IF s.customerId[e] = v THEN s
  ELSE
    LET m == s.entityManager[e]
        s1 == IF s.entityState[e] \in {Unchanged, Modified}
                 /\ "customerId" \notin DOMAIN s.originalValues[e]
              THEN [s EXCEPT !.originalValues[e] =
                      [p \in DOMAIN @ \cup {"customerId"} |->
                         IF p = "customerId" THEN s.customerId[e] ELSE @[p]]]
              ELSE s
        s2 == [s1 EXCEPT !.customerId[e] = v]
    IN IF m # NoMgr /\ ~s2.isLoading[m] /\ s2.entityState[e] = Unchanged
       THEN _notifyStateChange([s2 EXCEPT !.entityState[e] = Modified], m, e, TRUE)
       ELSE s2

\* the child leaves the relation it is in: its reference is cleared and the
\* array of the parent it referred to no longer holds it
Unlink(s, child) ==
  LET old == s.customer[child]
  IN IF old = Null THEN s
     ELSE [s EXCEPT !.customer[child] = Null,
                    !.orders[old] = IF Bidirectional(s) THEN Without(@, child) ELSE @]

\* child.setProperty("customer", parent), and parent.setProperty("orders", child)
\* or parent.orders.push(child) of a bidirectional relation, which come to the
\* same: the reference, its inverse and the foreign key are set together
LinkChild(s, child, parent) ==
  IF s.customer[child] = parent THEN WriteFk(s, child, s.id[parent])
  ELSE
    LET SetInverse(s1) ==
          LET only == IF ParentToChildIsScalar(s1) /\ s1.orders[parent] # <<>>
                      THEN s1.orders[parent][1] ELSE Null
          IN IF ~Bidirectional(s1) THEN s1
             ELSE IF ParentToChildIsScalar(s1)
             THEN IF only \in {Null, child}
                  THEN [s1 EXCEPT !.orders[parent] = <<child>>]
                  ELSE WriteFk([s1 EXCEPT !.orders[parent] = <<child>>,
                                          !.customer[only] = Null],
                               only, DefaultKey)
             ELSE [s1 EXCEPT !.orders[parent] =
                     IF Contains(@, child) THEN @ ELSE Append(@, child)]
    IN WriteFk(SetInverse([Unlink(s, child) EXCEPT !.customer[child] = parent]),
               child, s.id[parent])

\* relationArray._push of the unidirectional Customer.orders: the child is
\* appended without the check for a duplicate and takes the parent's key as its
\* foreign key
ArrayPushRaw(s, parent, child) ==
  WriteFk([s EXCEPT !.orders[parent] = Append(@, child)], child, s.id[parent])

(***************************************************************************)
(* UnattachedChildrenMap (a50_entityManager.js).  The map is the set of    *)
(* its tuples [parentKey, navigationProperty, children]; every parent key  *)
(* is a key of Customer.                                                   *)
(***************************************************************************)
getTuples(s, m, parentEntityKey) ==
  {t \in s._unattachedChildrenMap[m] : t.parentKey = parentEntityKey}

getTuple(s, m, parentEntityKey, navigationProperty) ==
  {t \in getTuples(s, m, parentEntityKey) : t.navigationProperty = navigationProperty}

addChild(s, m, parentEntityKey, navigationProperty, child) ==
  LET found == getTuple(s, m, parentEntityKey, navigationProperty)
      tuple == IF found = {}
               THEN [parentKey |-> parentEntityKey,
                     navigationProperty |-> navigationProperty, children |-> <<>>]
               ELSE CHOOSE t \in found : TRUE
  IN [s EXCEPT !._unattachedChildrenMap[m] =
        (@ \ found) \cup {[tuple EXCEPT !.children = Append(@, child)]}]

\* removeChildren: the tuple of that navigation property goes; none does when
\* navigationProperty is undefined
removeChildren(s, m, parentEntityKey, navigationProperty) ==
  [s EXCEPT !._unattachedChildrenMap[m] =
     @ \ getTuple(s, m, parentEntityKey, navigationProperty)]

\* entity.setProperty("customerId", v): the value is written; an entity of a
\* manager is then wired to the Customer cached under the new value, or is
\* buffered for it when none is cached.  The unidirectional Customer.orders is
\* left alone while the manager is in key fixup.
setForeignKey(s, e, v) ==
  IF s.customerId[e] = v THEN s
  ELSE
    LET m == s.entityManager[e]
        oldValue == s.customerId[e]
        parent == GroupFindEntityByKey(s, m, "Customer", v)
        oldParent == GroupFindEntityByKey(s, m, "Customer", oldValue)
        Rewire(s1) ==
          IF m = NoMgr THEN s1
          ELSE IF HasChildToParentNp(s1)
          THEN IF parent # Null THEN LinkChild(s1, e, parent)
               ELSE addChild(Unlink(s1, e), m, v, "customer", e)
          ELSE IF s1._inKeyFixup[m] THEN s1
          ELSE LET Add(s2) ==
                     IF parent # Null
                     THEN [s2 EXCEPT !.orders[parent] =
                             IF Contains(@, e) THEN @ ELSE Append(@, e)]
                     ELSE addChild(s2, m, v, "orders", e)
               IN Add(IF oldParent = Null THEN s1
                      ELSE [s1 EXCEPT !.orders[oldParent] = Without(@, e)])
    IN Rewire(WriteFk(s, e, v))

\* the values of an entity as merges copy them (the key is what matched)
updateTargetFromRaw(s, target, raw) ==
  LET s1 == [s EXCEPT !.rowVer[target] = raw.rowVer]
  IN IF TypeOf(target) = "Order" THEN setForeignKey(s1, target, raw.customerId) ELSE s1

\* group.attachEntity: index a new key, or resolve the collision by the table
\* of section 4.1 and return the cached instance
GroupAttachEntity(s, m, e, state, mergeStrategy) ==
  LET t == TypeOf(e)
      target == GroupFindEntityByKey(s, m, t, KeyOf(s, e))
  IN IF target = Null
     THEN [s EXCEPT !._entityGroupMap[m][t] = @ \cup {<<KeyOf(s, e), e>>},
                    !.entityState[e] = state,
                    !.entityManager[e] = m,
                    !.ret = e]
     ELSE IF target = e
     THEN [s EXCEPT !.entityState[e] = state, !.ret = e]
     ELSE IF mergeStrategy = Disallowed
     THEN [s EXCEPT !.threw = TRUE]
     ELSE IF mergeStrategy = OverwriteChanges
             \/ (mergeStrategy = PreserveChanges /\ s.entityState[target] = Unchanged)
     THEN LET s1 == updateTargetFromRaw(s, target, [rowVer |-> s.rowVer[e],
                                                    customerId |-> s.customerId[e]])
          IN [setEntityState(s1, target, state) EXCEPT !.ret = target]
     ELSE [s EXCEPT !.ret = target]

(***************************************************************************)
(* The key generator: it remembers the temporary keys it has handed out    *)
(* and hands out -1, -2, ... skipping those; asked for a value it has not  *)
(* handed out, it hands out that value.  Modelled from the design (section *)
(* 4.5) and from the call and its comment in importEntities.               *)
(***************************************************************************)
TempKeyOf(n) == 0 - n
IsTempKey(k) == k < 0
TempKeys == {TempKeyOf(n) : n \in 1..(MaxTempKeys + 1)}

\* the next number of a generator that has handed out the keys in used
NextTempKey(used) ==
  TempKeyOf(CHOOSE n \in 1..(MaxTempKeys + 1) :
              /\ TempKeyOf(n) \notin used
              /\ \A k \in 1..(n - 1) : TempKeyOf(k) \in used)

\* a generator that hands out its first value whatever it has handed out
KeyGeneratorGenerate_forgetsUsed(s, m, valueIfAvail) ==
  LET nextId == IF valueIfAvail # {}
                THEN CHOOSE v \in valueIfAvail : TRUE
                ELSE TempKeyOf(1)
  IN [s EXCEPT !.keyGenerator[m] = @ \cup {nextId},
               !.minted = Append(@, <<m, nextId>>),
               !.ret = nextId]

\* keyGenerator.generateTempKeyValue(entityType, valueIfAvail): the value and
\* the state the generator is left in; valueIfAvail is the set holding the
\* value passed, empty when none is passed
KeyGeneratorGenerate(s, m, valueIfAvail) ==
  LET used == s.keyGenerator[m]
      nextId == IF valueIfAvail # {} /\ valueIfAvail \cap used = {}
                THEN CHOOSE v \in valueIfAvail : TRUE
                ELSE NextTempKey(used)
  IN [s EXCEPT !.keyGenerator[m] = @ \cup {nextId},
               !.minted = Append(@, <<m, nextId>>),
               !.ret = nextId]

\* em.generateTempKeyValue(entity)
generateTempKeyValue(s, m, e) ==
  LET s1 == KeyGeneratorGenerate(s, m, {})
      nextKeyValue == s1.ret
  IN [s1 EXCEPT !.id[e] = nextKeyValue,
                !.hasTempKey[e] = TRUE,
                !.ret = s.ret]

(***************************************************************************)
(* The manager's operations (a50_entityManager.js).                        *)
(***************************************************************************)
\* whether the type's key is generated (AutoGeneratedKeyType is not None)
AutoGeneratedKey(t) == t = "Customer"

findOrCreateEntityGroup(s, m, t) ==
  IF t \in DOMAIN s._entityGroupMap[m] THEN s
  ELSE [s EXCEPT !._entityGroupMap[m] =
          [tt \in DOMAIN @ \cup {t} |-> IF tt = t THEN {} ELSE @[tt]]]

\* em.findEntityByKey / em.getEntityByKey for a key of a type without subtypes
getEntityByKey(s, m, t, k) == GroupFindEntityByKey(s, m, t, k)

\* checkEntityKey that fails on a key of which only a part is set
checkEntityKey_throwsOnPartialKey(s, m, e) ==
  LET ek == KeyValues(s, e)
      keyPropsWithDefaultValues == {i \in 1..Len(ek) : ek[i] = DefaultKey}
  IN IF keyPropsWithDefaultValues # {}
     THEN IF AutoGeneratedKey(TypeOf(e))
          THEN generateTempKeyValue(s, m, e)
          ELSE [s EXCEPT !.threw = TRUE]
     ELSE s

\* checkEntityKey: an Added entity with a key property that holds the default
\* gets a temporary key when the type generates its keys; otherwise the attach
\* fails when every key property holds the default and goes on when only
\* some do
checkEntityKey(s, m, e) ==
  LET ek == KeyValues(s, e)
      keyPropsWithDefaultValues == {i \in 1..Len(ek) : ek[i] = DefaultKey}
  IN IF keyPropsWithDefaultValues # {}
     THEN IF AutoGeneratedKey(TypeOf(e))
          THEN generateTempKeyValue(s, m, e)
          ELSE IF Cardinality(keyPropsWithDefaultValues) = Len(ek)
               THEN [s EXCEPT !.threw = TRUE]
               ELSE s
     ELSE s

\* the children of a tuple that are not Detached
UnattachedChildren(s, tpl) ==
  SelectSeq(tpl.children, LAMBDA c : s.entityState[c] # Detached)

RECURSIVE PushEach(_, _, _)
\* unattachedChildren.forEach(child => currentChildren._push(child))
PushEach(s, entity, children) ==
  IF children = <<>> THEN s
  ELSE PushEach(ArrayPushRaw(s, entity, Head(children)), entity, Tail(children))

RECURSIVE LinkEach(_, _, _)
\* unattachedChildren.forEach(child => child.setProperty(childToParentNp.name, entity))
LinkEach(s, entity, children) ==
  IF children = <<>> THEN s
  ELSE LinkEach(LinkChild(s, Head(children), entity), entity, Tail(children))

\* _linkRelatedEntities, the body of tuples.forEach: the buffered children of
\* one tuple are wired to the entity, then the tuple of childToParentNp is
\* removed, which is undefined for the unidirectional Customer.orders
LinkTuple(s, m, entity, tpl) ==
  LET unattachedChildren == UnattachedChildren(s, tpl)
      np == tpl.navigationProperty
      entityKey == KeyOf(s, entity)
  IN IF Bidirectional(s)
     THEN IF ParentToChildIsScalar(s)
          THEN IF unattachedChildren = <<>>
               THEN [(IF s.orders[entity] = <<>> THEN s
                      ELSE Unlink(s, s.orders[entity][1]))
                       EXCEPT !.threw = TRUE, !.error = "TypeError"]
               ELSE removeChildren(LinkChild(s, unattachedChildren[1], entity),
                                   m, entityKey, np)
          ELSE removeChildren(LinkEach(s, entity, unattachedChildren), m, entityKey, np)
     ELSE IF np = "customer"
          THEN removeChildren(LinkEach(s, entity, unattachedChildren), m, entityKey, np)
          ELSE removeChildren(PushEach(s, entity, unattachedChildren),
                              m, entityKey, "undefined")

RECURSIVE LinkTuples(_, _, _, _)
LinkTuples(s, m, entity, tuples) ==
  IF tuples = {} \/ s.threw THEN s
  ELSE LET tpl == CHOOSE t \in tuples : TRUE
       IN LinkTuples(LinkTuple(s, m, entity, tpl), m, entity, tuples \ {tpl})

\* _linkRelatedEntities, the loop over the navigation properties of the entity:
\* Order.customer is wired to the cached parent or the entity is buffered for
\* it; Customer.orders has no parent key
LinkAsChild(s, m, entity) ==
  IF TypeOf(entity) = "Order" /\ HasChildToParentNp(s) /\ s.customer[entity] = Null
     /\ s.customerId[entity] # DefaultKey
  THEN LET parentKey == s.customerId[entity]
           parent == GroupFindEntityByKey(s, m, "Customer", parentKey)
       IN IF parent # Null
          THEN LinkChild(s, entity, parent)
          ELSE addChild(s, m, parentKey, "customer", entity)
  ELSE s

\* _linkRelatedEntities, the loop over the foreign key properties that have an
\* inverse navigation property only: customerId when Customer.orders is
\* declared alone
LinkUnidirectionalFk(s, m, entity) ==
  IF TypeOf(entity) = "Order" /\ s.navShape = "uniParent"
  THEN LET fkValue == s.customerId[entity]
           parent == GroupFindEntityByKey(s, m, "Customer", fkValue)
       IN IF parent # Null
          THEN ArrayPushRaw(s, parent, entity)
          ELSE addChild(s, m, fkValue, "orders", entity)
  ELSE s

\* _linkRelatedEntities: under the loading scope, which is left as it was found
\* also when the linking throws
_linkRelatedEntities(s, m, entity) ==
  LET wasLoading == s.isLoading[m]
      tuples == IF TypeOf(entity) = "Customer"
                THEN getTuples(s, m, KeyOf(s, entity)) ELSE {}
      FkProperties(s2) == IF s2.threw THEN s2 ELSE LinkUnidirectionalFk(s2, m, entity)
      NavProperties(s1) == FkProperties(IF s1.threw THEN s1 ELSE LinkAsChild(s1, m, entity))
  IN [NavProperties(LinkTuples([s EXCEPT !.isLoading[m] = TRUE], m, entity, tuples))
        EXCEPT !.isLoading[m] = wasLoading]

_attachEntityCore(s, m, e, state, mergeStrategy) ==
  LET Link(s2) ==
        IF s2.threw THEN s2 ELSE [_linkRelatedEntities(s2, m, s2.ret) EXCEPT !.ret = s2.ret]
  IN Link(GroupAttachEntity(findOrCreateEntityGroup(s, m, TypeOf(e)),
                            m, e, state, mergeStrategy))

\* what attachRelatedEntities finds in the navigation properties of the entity
RelatedEntities(s, e) ==
  IF TypeOf(e) = "Order"
  THEN IF HasChildToParentNp(s) /\ s.customer[e] # Null THEN {s.customer[e]} ELSE {}
  ELSE IF HasParentToChildNp(s) THEN {s.orders[e][i] : i \in 1..Len(s.orders[e])} ELSE {}

\* validationOptions of the managers: validateOnAttach off, validateOnSave on
ValidateOnAttach == FALSE
ValidateOnSave == TRUE

\* aspect.validateEntity: the validation engine's verdict isValid is recorded as
\* the presence of a client-origin error and returned
validateEntity(s, e, isValid) ==
  [s EXCEPT !.validationErrors[e] =
     IF isValid THEN @ \ {"client"} ELSE @ \cup {"client"}]

\* attachEntity without the check that the entity belongs to another manager
attachEntity_noOwnerCheck(s, m, e, state, mergeStrategy) ==
  LET s0 == [s EXCEPT !.hasAspect[e] = TRUE]
      manager == s.entityManager[e]
  IN IF manager = m
     THEN [s0 EXCEPT !.ret = e]
     ELSE
       LET wasLoading == s0.isLoading[m]
           s1 == [s0 EXCEPT !.isLoading[m] = TRUE]
           s2 == IF state = Added THEN checkEntityKey(s1, m, e) ELSE s1
           s3 == IF s2.threw THEN s2 ELSE _attachEntityCore(s2, m, e, state, mergeStrategy)
           s5 == [s3 EXCEPT !.isLoading[m] = wasLoading]
           attachedEntity == s5.ret
           s7 == IF state # Unchanged
                 THEN _notifyStateChange(s5, m, attachedEntity, TRUE)
                 ELSE s5
       IN IF s5.threw THEN s5
          ELSE [publish(s7, "Attach", attachedEntity) EXCEPT !.ret = attachedEntity]

\* attachEntity that attaches again an entity this manager already holds
attachEntity_reattaches(s, m, e, state, mergeStrategy) ==
  LET s0 == [s EXCEPT !.hasAspect[e] = TRUE]
      manager == s.entityManager[e]
  IN IF manager # NoMgr /\ manager # m
     THEN [s0 EXCEPT !.threw = TRUE]
     ELSE
       LET wasLoading == s0.isLoading[m]
           s1 == [s0 EXCEPT !.isLoading[m] = TRUE]
           s2 == IF state = Added THEN checkEntityKey(s1, m, e) ELSE s1
           s3 == IF s2.threw THEN s2 ELSE _attachEntityCore(s2, m, e, state, mergeStrategy)
           s5 == [s3 EXCEPT !.isLoading[m] = wasLoading]
           attachedEntity == s5.ret
           s7 == IF state # Unchanged
                 THEN _notifyStateChange(s5, m, attachedEntity, TRUE)
                 ELSE s5
       IN IF s5.threw THEN s5
          ELSE [publish(s7, "Attach", attachedEntity) EXCEPT !.ret = attachedEntity]

RECURSIVE attachEntity(_, _, _, _, _)
RECURSIVE AttachEach(_, _, _, _, _)
\* em.attachEntity for each of the related entities, up to the first throw
AttachEach(s, m, related, state, mergeStrategy) ==
  IF related = {} \/ s.threw THEN s
  ELSE LET r == CHOOSE x \in related : TRUE
       IN AttachEach(attachEntity(s, m, r, state, mergeStrategy),
                     m, related \ {r}, state, mergeStrategy)

\* attachRelatedEntities that attaches the related entities as Unchanged
attachRelatedEntities_asUnchanged(s, m, e, state, mergeStrategy) ==
  AttachEach(s, m, RelatedEntities(s, e), Unchanged, mergeStrategy)

\* attachRelatedEntities: what the navigation properties of the entity refer to
\* is attached in the same state and with the same merge strategy
attachRelatedEntities(s, m, e, state, mergeStrategy) ==
  AttachEach(s, m, RelatedEntities(s, e), state, mergeStrategy)

attachEntity(s, m, e, state, mergeStrategy) ==
  LET s0 == [s EXCEPT !.hasAspect[e] = TRUE]
      manager == s.entityManager[e]
  IN IF \E pr \in s.inProcess : pr[1] = e
     THEN [s EXCEPT !.ret = (CHOOSE pr \in s.inProcess : pr[1] = e)[2]]
     ELSE IF manager # NoMgr
     THEN IF manager = m
          THEN [s0 EXCEPT !.ret = e]
          ELSE [s0 EXCEPT !.threw = TRUE]
     ELSE
       LET wasLoading == s0.isLoading[m]
           s1 == [s0 EXCEPT !.isLoading[m] = TRUE]
           Notify(s6, attachedEntity) ==
             [publish(IF state # Unchanged
                      THEN _notifyStateChange(s6, m, attachedEntity, TRUE)
                      ELSE s6,
                      "Attach", attachedEntity)
                EXCEPT !.ret = attachedEntity]
           Validate(s5) ==
             IF s5.threw THEN s5
             ELSE Notify(IF ValidateOnAttach THEN validateEntity(s5, s5.ret, TRUE) ELSE s5,
                         s5.ret)
           Related(s3) ==
             IF s3.threw THEN s3
             ELSE [attachRelatedEntities([s3 EXCEPT !.inProcess = @ \cup {<<e, s3.ret>>}],
                                         m, e, state, mergeStrategy)
                     EXCEPT !.inProcess = s3.inProcess, !.ret = s3.ret]
           Core(s2) ==
             Validate([Related(IF s2.threw THEN s2
                               ELSE _attachEntityCore(s2, m, e, state, mergeStrategy))
                         EXCEPT !.isLoading[m] = wasLoading])
       IN Core(IF state = Added THEN checkEntityKey(s1, m, e) ELSE s1)

detachEntity(s, m, e) ==
  IF ~s.hasAspect[e]
  THEN [s EXCEPT !.ret = "false"]
  ELSE IF s.entityManager[e] # m
  THEN [s EXCEPT !.threw = TRUE]
  ELSE setDetached(s, e)

\* entityType.createEntity(initialValues): a new detached instance with an aspect
NewInstance(s, e, key) ==
  [s EXCEPT !.created = @ \cup {e}, !.hasAspect[e] = TRUE, !.id[e] = key]

createEntity(s, m, e, key, state, mergeStrategy) ==
  LET wasLoading == s.isLoading[m]
      s1 == [NewInstance([s EXCEPT !.isLoading[m] = TRUE], e, key)
               EXCEPT !.isLoading[m] = wasLoading]
  IN IF state # Detached
     THEN attachEntity(s1, m, e, state, mergeStrategy)
     ELSE [s1 EXCEPT !.ret = e]

\* aspect._detach, as group._clear applies it to every entity of the group
AspectDetach(s, e) ==
  [s EXCEPT !.entityManager[e] = NoMgr,
            !.entityState[e] = Detached,
            !.originalValues[e] = NoValues,
            !.validationErrors[e] = {}]

RECURSIVE DetachAll(_, _)
DetachAll(s, es) ==
  IF es = {} THEN s
  ELSE LET e == CHOOSE x \in es : TRUE
       IN DetachAll(AspectDetach(s, e), es \ {e})

\* clear that keeps the buffer of unattached children
clear_keepsBuffer(s, m) ==
  LET s1 == DetachAll(s, CachedEntities(s, m))
      s2 == [s1 EXCEPT !._entityGroupMap[m] = NoValues,
                       !.keyGenerator[m] = {}]
      s3 == publish(s2, "Clear", Null)
  IN _setHasChanges(s3, m, "false")

\* clear that drops the groups without clearing them
clear_keepsEntities(s, m) ==
  LET s2 == [s EXCEPT !._entityGroupMap[m] = NoValues,
                      !._unattachedChildrenMap[m] = {},
                      !.keyGenerator[m] = {}]
      s3 == publish(s2, "Clear", Null)
  IN _setHasChanges(s3, m, "false")

clear(s, m) ==
  LET s1 == DetachAll(s, CachedEntities(s, m))
      s2 == [s1 EXCEPT !._entityGroupMap[m] = NoValues,
                       !._unattachedChildrenMap[m] = {},
                       !.keyGenerator[m] = {}]
      s3 == publish(s2, "Clear", Null)
  IN _setHasChanges(s3, m, "false")

\* aspect.acceptChanges: a Deleted entity leaves the cache, any other becomes
\* Unchanged
AspectAcceptChanges(s, e) ==
  IF s.entityState[e] = Deleted
  THEN detachEntity(s, s.entityManager[e], e)
  ELSE setUnchanged(s, e)

\* aspect.rejectChanges: the recorded original values are written back under
\* the loading scope; an Added entity is detached, any other becomes Unchanged
AspectRejectChanges(s, e) ==
  LET m == s.entityManager[e]
      s1 == IF "rowVer" \in DOMAIN s.originalValues[e]
            THEN [s EXCEPT !.rowVer[e] = s.originalValues[e]["rowVer"]]
            ELSE s
  IN IF s1.entityState[e] = Added
     THEN _notifyStateChange(detachEntity(s1, m, e), m, e, FALSE)
     ELSE setUnchanged(s1, e)

RECURSIVE RejectAll(_, _)
RejectAll(s, es) ==
  IF es = {} THEN s
  ELSE LET e == CHOOSE x \in es : TRUE
       IN RejectAll(AspectRejectChanges(s, e), es \ {e})

getChanges(s, m) == UNION {GroupGetChanges(s, m, t) : t \in DOMAIN s._entityGroupMap[m]}

\* em.rejectChanges
rejectChanges(s, m) ==
  IF ~s._hasChanges[m] THEN s
  ELSE LET changes == getChanges(s, m)
           s1 == [s EXCEPT !._hasChanges[m] = FALSE]
           s2 == RejectAll(s1, changes)
       IN publish(s2, "HasChangesChanged", Null)

(***************************************************************************)
(* Export and import.  A bundle is the sequence of its raw entities, group  *)
(* after group, and the list tempKeys of <<type, value>>; a raw entity is  *)
(* [type, id, rowVer, customerId, entityState, tempNavPropNames], where    *)
(* tempNavPropNames tells whether it lists "customer".                     *)
(***************************************************************************)
\* a free object for entityType._createInstanceCore (Null when none is left)
FreeInstance(s, t) ==
  LET pool == IF t = "Order" THEN OrderPoolEnts ELSE PoolEnts
  IN IF pool \ s.created = {} THEN Null ELSE CHOOSE e \in pool \ s.created : TRUE

\* exportTempKeyInfo: whether Order.customer refers to an entity with a temp key
exportTempKeyInfo(s, e) ==
  /\ TypeOf(e) = "Order"
  /\ HasChildToParentNp(s)
  /\ s.customer[e] # Null
  /\ s.hasTempKey[s.customer[e]]

\* structuralObjectToJson: the raw entity an entity is exported as
structuralObjectToJson(s, e) ==
  [type |-> TypeOf(e), id |-> s.id[e], rowVer |-> s.rowVer[e],
   customerId |-> s.customerId[e], entityState |-> s.entityState[e],
   tempNavPropNames |-> exportTempKeyInfo(s, e)]

RECURSIVE exportEntityGroup(_, _)
\* exportEntityGroup: the entities of a group as raw entities; the model does
\* not keep the order of group._entities and takes them by ascending key
exportEntityGroup(s, es) ==
  IF es = {} THEN <<>>
  ELSE LET e == CHOOSE x \in es : \A y \in es : s.id[x] <= s.id[y]
       IN <<structuralObjectToJson(s, e)>> \o exportEntityGroup(s, es \ {e})

\* exportEntities() of every entity of the manager: the Customer group, then the
\* Order group, and the keys of the entities that have a temp key
exportEntityGroups(s, m) ==
  LET entities == exportEntityGroup(s, GroupEntities(s, m, "Customer"))
                    \o exportEntityGroup(s, GroupEntities(s, m, "Order"))
      withTempKey == SelectSeq(entities, LAMBDA raw :
                       \E e \in CachedEntities(s, m) :
                         TypeOf(e) = raw.type /\ s.id[e] = raw.id /\ s.hasTempKey[e])
  IN [types |-> SelectSeq(<<"Customer", "Order">>,
                          LAMBDA t : t \in DOMAIN s._entityGroupMap[m]),
      entities |-> entities,
      tempKeys |-> [i \in 1..Len(withTempKey) |-> <<withTempKey[i].type, withTempKey[i].id>>]]

\* getMappedKey: the key minted for a temp key of the bundle, as a set that is
\* empty when the key is not in the map.  tempKeyMap is a set of
\* <<type, old, new>>.
getMappedKey(tempKeyMap, t, k) == {q[3] : q \in {x \in tempKeyMap : x[1] = t /\ x[2] = k}}

\* importEntities, first loop: for each temp key the bundle lists, this
\* manager's generator is asked for a key and is passed the old value
RECURSIVE MintTempKeys(_, _, _, _)
MintTempKeys(s, m, tempKeys, tempKeyMap) ==
  IF tempKeys = <<>> THEN [s |-> s, tempKeyMap |-> tempKeyMap]
  ELSE LET oldKey == Head(tempKeys)
           s1 == KeyGeneratorGenerate(s, m, {oldKey[2]})
       IN MintTempKeys([s1 EXCEPT !.ret = s.ret], m, Tail(tempKeys),
                       tempKeyMap \cup {<<oldKey[1], oldKey[2], s1.ret>>})

\* importEntityGroup, "fixup foreign keys": the foreign key of a navigation
\* property listed in tempNavPropNames takes the key minted for its old value;
\* the old value not being in the map is a TypeError
FixupTempFk(s, e, rawEntity, tempKeyMap) ==
  IF ~rawEntity.tempNavPropNames THEN s
  ELSE LET oldFkValue == s.customerId[e]
           newFk == getMappedKey(tempKeyMap, "Customer", oldFkValue)
       IN IF newFk = {}
          THEN [s EXCEPT !.threw = TRUE, !.error = "TypeError"]
          ELSE setForeignKey(s, e, CHOOSE k \in newFk : TRUE)

\* the loop body with PreserveChanges overwriting whatever the cached state is
importRawEntity_alwaysOverwrites(s, m, rawEntity, tempKeyMap, mergeStrategy) ==
  LET t == rawEntity.type
      state == rawEntity.entityState
      newTempKey == IF state = Added THEN getMappedKey(tempKeyMap, t, rawEntity.id) ELSE {}
      isNewTempKey == newTempKey # {}
      targetEntity == IF isNewTempKey THEN Null
                      ELSE GroupFindEntityByKey(s, m, t, rawEntity.id)
  IN IF state = Detached
     THEN [s EXCEPT !.threw = TRUE]
     ELSE IF targetEntity # Null
     THEN IF mergeStrategy = SkipMerge
          THEN [s EXCEPT !.ret = targetEntity]
          ELSE IF mergeStrategy = Disallowed
          THEN [s EXCEPT !.threw = TRUE]
          ELSE LET s1 == updateTargetFromRaw(s, targetEntity, rawEntity)
                   s2 == setEntityState(s1, targetEntity, state)
               IN [publish(s2, "MergeOnImport", targetEntity) EXCEPT !.ret = targetEntity]
     ELSE
       LET e == FreeInstance(s, t)
           s1 == updateTargetFromRaw(NewInstance(s, e, rawEntity.id), e, rawEntity)
           s2 == IF isNewTempKey
                 THEN FixupTempFk([s1 EXCEPT !.hasTempKey[e] = TRUE,
                                             !.id[e] = CHOOSE k \in newTempKey : TRUE],
                                  e, rawEntity, tempKeyMap)
                 ELSE s1
           s3 == GroupAttachEntity(s2, m, e, state, "undefined")
           attached == s3.ret
           s4 == publish(s3, "AttachOnImport", attached)
           s5 == IF state # Unchanged THEN _notifyStateChange(s4, m, attached, TRUE) ELSE s4
       IN IF s2.threw THEN s2 ELSE [s5 EXCEPT !.ret = attached]

\* the body of importEntityGroup's loop for one raw entity
importRawEntity(s, m, rawEntity, tempKeyMap, mergeStrategy) ==
  LET t == rawEntity.type
      state == rawEntity.entityState
      newTempKey == IF state = Added THEN getMappedKey(tempKeyMap, t, rawEntity.id) ELSE {}
      isNewTempKey == newTempKey # {}
      targetEntity == IF isNewTempKey THEN Null
                      ELSE GroupFindEntityByKey(s, m, t, rawEntity.id)
  IN IF state = Detached
     THEN [s EXCEPT !.threw = TRUE]
     ELSE IF targetEntity # Null
     THEN IF mergeStrategy = SkipMerge
          THEN [s EXCEPT !.ret = targetEntity]
          ELSE IF mergeStrategy = Disallowed
          THEN [s EXCEPT !.threw = TRUE]
          ELSE IF mergeStrategy = OverwriteChanges \/ s.entityState[targetEntity] = Unchanged
          THEN LET s1 == updateTargetFromRaw(s, targetEntity, rawEntity)
                   s2 == setEntityState(s1, targetEntity, state)
               IN [publish(s2, "MergeOnImport", targetEntity) EXCEPT !.ret = targetEntity]
          ELSE [s EXCEPT !.ret = targetEntity]
     ELSE
       LET e == FreeInstance(s, t)
           Notify(s4, attached) ==
             [(IF state # Unchanged THEN _notifyStateChange(s4, m, attached, TRUE) ELSE s4)
                EXCEPT !.ret = attached]
           Announce(s3) == Notify(publish(s3, "AttachOnImport", s3.ret), s3.ret)
           Attach(s2) ==
             IF s2.threw THEN s2
             ELSE Announce(GroupAttachEntity(s2, m, e, state, "undefined"))
           Fixup(s1) ==
             Attach(IF isNewTempKey
                    THEN FixupTempFk([s1 EXCEPT !.hasTempKey[e] = TRUE,
                                                !.id[e] = CHOOSE k \in newTempKey : TRUE],
                                     e, rawEntity, tempKeyMap)
                    ELSE s1)
       IN Fixup(updateTargetFromRaw(NewInstance(s, e, rawEntity.id), e, rawEntity))

\* importEntityGroup: the raw entities in order, stopping at the first throw
RECURSIVE importEntityGroup(_, _, _, _, _)
importEntityGroup(s, m, rawEntities, tempKeyMap, mergeStrategy) ==
  IF rawEntities = <<>> \/ s.threw THEN s
  ELSE LET ToLink(s1) ==
             IF s1.threw THEN s1 ELSE [s1 EXCEPT !.entitiesToLink = Append(@, s1.ret)]
       IN importEntityGroup(ToLink(importRawEntity(s, m, Head(rawEntities),
                                                   tempKeyMap, mergeStrategy)),
                            m, Tail(rawEntities), tempKeyMap, mergeStrategy)

RECURSIVE ImportGroups(_, _, _, _, _, _)
\* importEntities, the loop over the groups of the bundle: the group is found
\* or created and its raw entities are imported; a throw ends the loop
ImportGroups(s, m, types, entities, tempKeyMap, mergeStrategy) ==
  IF types = <<>> \/ s.threw THEN s
  ELSE LET t == Head(types)
           s1 == findOrCreateEntityGroup(s, m, t)
           s2 == importEntityGroup(s1, m, SelectSeq(entities, LAMBDA raw : raw.type = t),
                                   tempKeyMap, mergeStrategy)
       IN ImportGroups(s2, m, Tail(types), entities, tempKeyMap, mergeStrategy)

RECURSIVE LinkImported(_, _, _)
\* entitiesToLink.forEach: every imported entity that is not Deleted is linked
LinkImported(s, m, entitiesToLink) ==
  IF entitiesToLink = <<>> \/ s.threw THEN s
  ELSE LET entity == Head(entitiesToLink)
           s1 == IF s.entityState[entity] # Deleted
                 THEN _linkRelatedEntities(s, m, entity) ELSE s
       IN LinkImported(s1, m, Tail(entitiesToLink))

\* importEntities that does not link the imported entities
importEntities_skipsLinking(s, m, bundle, mergeStrategy) ==
  LET minted == MintTempKeys(s, m, bundle.tempKeys, {})
      s2 == ImportGroups(minted.s, m, bundle.types, bundle.entities,
                         minted.tempKeyMap, mergeStrategy)
  IN [RunHasChangesAction(s2, m) EXCEPT !.tempKeyMap = minted.tempKeyMap]

\* importEntities: the deferred hasChanges action runs when the body has
\* finished, also when it threw
importEntities(s, m, bundle, mergeStrategy) ==
  LET Link(s2) == LinkImported(s2, m, s2.entitiesToLink)
      Import(minted) ==
        [RunHasChangesAction(Link(ImportGroups(minted.s, m, bundle.types, bundle.entities,
                                               minted.tempKeyMap, mergeStrategy)),
                             m)
           EXCEPT !.tempKeyMap = minted.tempKeyMap]
  IN Import(MintTempKeys(s, m, bundle.tempKeys, {}))

(***************************************************************************)
(* The save pipeline.  A dispatched save is the record                     *)
(*   [id, mgr, entitiesToSave, sent, pre]                                  *)
(* where sent is what the transport was handed for each entity and pre is  *)
(* the cache as it was when saveChanges was called.                        *)
(***************************************************************************)
\* getEntitiesToSave that takes every cached entity when no list is passed
getEntitiesToSave_allCached(s, m, entities) ==
  IF ~entities.isNull
  THEN IF \E e \in entities.list : s.entityManager[e] # m
       THEN [threw |-> TRUE, entitiesToSave |-> {}]
       ELSE [threw |-> FALSE,
             entitiesToSave |-> {e \in entities.list : s.entityState[e] # Detached}]
  ELSE [threw |-> FALSE, entitiesToSave |-> CachedEntities(s, m)]

\* getEntitiesToSave: an explicit list is filtered (and throws on an entity of
\* another manager); no list means every pending change
getEntitiesToSave(s, m, entities) ==
  IF ~entities.isNull
  THEN IF \E e \in entities.list : s.entityManager[e] # m
       THEN [threw |-> TRUE, entitiesToSave |-> {}]
       ELSE [threw |-> FALSE,
             entitiesToSave |-> {e \in entities.list : s.entityState[e] # Detached}]
  ELSE [threw |-> FALSE, entitiesToSave |-> getChanges(s, m)]

markIsBeingSaved(s, es, flag) ==
  [s EXCEPT !.isBeingSaved = [e \in Ents |-> IF e \in es THEN flag ELSE @[e]]]

clearServerErrors(s, es) ==
  [s EXCEPT !.validationErrors = [e \in Ents |-> IF e \in es THEN @[e] \ {"server"} ELSE @[e]]]

\* saveChangesValidateOnClient: every entity that is not Deleted is validated;
\* invalid is the set of entities the validation engine rejects
saveChangesValidateOnClient(s, es, invalid) ==
  IF ValidateOnSave
  THEN LET validated == {e \in es : s.entityState[e] # Deleted}
           s1 == [s EXCEPT !.validationErrors =
                    [e \in Ents |-> IF e \in validated
                                    THEN IF e \in invalid THEN @[e] \cup {"client"}
                                                          ELSE @[e] \ {"client"}
                                    ELSE @[e]]]
       IN [s1 EXCEPT !.error = IF validated \cap invalid # {}
                               THEN "ClientValidationError" ELSE Null]
  ELSE s

\* updateConcurrencyProperty for the numeric property rowVer
updateConcurrencyProperty(s, e) ==
  IF "rowVer" \in DOMAIN s.originalValues[e] /\ s.originalValues[e]["rowVer"] # 0
  THEN s
  ELSE setProperty(s, e, s.rowVer[e] + 1)

RECURSIVE UpdateEach(_, _)
\* candidates.forEach(updateConcurrencyProperty)
UpdateEach(s, es) ==
  IF es = {} THEN s
  ELSE LET e == CHOOSE x \in es : TRUE
       IN UpdateEach(updateConcurrencyProperty(s, e), es \ {e})

\* updateConcurrencyProperties that does not mark the entities as being saved
updateConcurrencyProperties_noMark(s, es) ==
  UpdateEach(s, {e \in es : s.entityState[e] = Modified})

updateConcurrencyProperties(s, es) ==
  LET s1 == markIsBeingSaved(s, es, TRUE)
      candidates == {e \in es : s1.entityState[e] = Modified}
  IN UpdateEach(s1, candidates)

\* what the cache looked like when saveChanges was called
Snapshot(s, m) ==
  [entityState |-> s.entityState, rowVer |-> s.rowVer, id |-> s.id,
   cached |-> CachedEntities(s, m), hasChanges |-> hasChanges(s, m)]

\* what the transport is handed for one entity
SentOf(s, e) ==
  [type |-> TypeOf(e), id |-> s.id[e], rowVer |-> s.rowVer[e],
   customerId |-> s.customerId[e], entityState |-> s.entityState[e],
   hasTempKey |-> s.hasTempKey[e]]

FreeSaveId(s) == CHOOSE i \in 1..MaxInFlight : \A sv \in s.saves : sv.id # i

\* saveChanges without the check for entities that are being saved
saveChanges_noPendingCheck(s, m, entities, allowConcurrentSaves, invalid, adapterThrows) ==
  LET got == getEntitiesToSave(s, m, entities)
      entitiesToSave == got.entitiesToSave
  IN IF got.threw
     THEN [s EXCEPT !.threw = TRUE, !.error = "NotInThisManager"]
     ELSE IF entitiesToSave = {}
     THEN [s EXCEPT !.callbacks = Append(@, "success"), !.promise = "resolved",
                    !.ret = "empty"]
     ELSE
       LET s1 == clearServerErrors(s, entitiesToSave)
           s2 == saveChangesValidateOnClient(s1, entitiesToSave, invalid)
       IN IF s2.error # Null
          THEN [s2 EXCEPT !.callbacks = Append(@, "error"), !.promise = "rejected"]
          ELSE
            LET s3 == updateConcurrencyProperties(s2, entitiesToSave)
                s4 == [s3 EXCEPT !.adapterCalled = TRUE]
            IN IF adapterThrows
               THEN [markIsBeingSaved(s4, entitiesToSave, FALSE)
                       EXCEPT !.callbacks = Append(@, "error"), !.promise = "rejected",
                              !.error = "AdapterError"]
               ELSE LET sid == FreeSaveId(s4)
                    IN [s4 EXCEPT !.saves = @ \cup
                                   {[id |-> sid, mgr |-> m,
                                     entitiesToSave |-> entitiesToSave,
                                     allowConcurrentSaves |-> allowConcurrentSaves,
                                     sent |-> [e \in entitiesToSave |-> SentOf(s4, e)],
                                     at |-> s.clock + 1,
                                     pre |-> Snapshot(s, m)]},
                                 !.promise = "pending", !.saveId = sid]

\* saveChanges that stamps the concurrency properties before it validates
saveChanges_stampsFirst(s, m, entities, allowConcurrentSaves, invalid, adapterThrows) ==
  LET got == getEntitiesToSave(s, m, entities)
      entitiesToSave == got.entitiesToSave
  IN IF got.threw
     THEN [s EXCEPT !.threw = TRUE, !.error = "NotInThisManager"]
     ELSE IF entitiesToSave = {}
     THEN [s EXCEPT !.callbacks = Append(@, "success"), !.promise = "resolved",
                    !.ret = "empty"]
     ELSE IF ~allowConcurrentSaves /\ \E e \in entitiesToSave : s.isBeingSaved[e]
     THEN [s EXCEPT !.callbacks = Append(@, "error"), !.promise = "rejected",
                    !.error = "ConcurrencyError"]
     ELSE
       LET s1 == clearServerErrors(s, entitiesToSave)
           s2 == updateConcurrencyProperties(s1, entitiesToSave)
           s3 == saveChangesValidateOnClient(s2, entitiesToSave, invalid)
       IN IF s3.error # Null
          THEN [s3 EXCEPT !.callbacks = Append(@, "error"), !.promise = "rejected"]
          ELSE
            LET s4 == [s3 EXCEPT !.adapterCalled = TRUE]
            IN IF adapterThrows
               THEN [markIsBeingSaved(s4, entitiesToSave, FALSE)
                       EXCEPT !.callbacks = Append(@, "error"), !.promise = "rejected",
                              !.error = "AdapterError"]
               ELSE LET sid == FreeSaveId(s4)
                    IN [s4 EXCEPT !.saves = @ \cup
                                   {[id |-> sid, mgr |-> m,
                                     entitiesToSave |-> entitiesToSave,
                                     allowConcurrentSaves |-> allowConcurrentSaves,
                                     sent |-> [e \in entitiesToSave |-> SentOf(s4, e)],
                                     at |-> s.clock + 1,
                                     pre |-> Snapshot(s, m)]},
                                 !.promise = "pending", !.saveId = sid]

\* saveChanges up to the point where the transport call has gone asynchronous.
\* invalid: the entities client validation rejects; adapterThrows: the adapter
\* throws before it goes asynchronous.
saveChanges(s, m, entities, allowConcurrentSaves, invalid, adapterThrows) ==
  LET got == getEntitiesToSave(s, m, entities)
      entitiesToSave == got.entitiesToSave
  IN IF got.threw
     THEN [s EXCEPT !.threw = TRUE, !.error = "NotInThisManager"]
     ELSE IF entitiesToSave = {}
     THEN [s EXCEPT !.callbacks = Append(@, "success"), !.promise = "resolved",
                    !.ret = "empty"]
     ELSE IF ~allowConcurrentSaves /\ \E e \in entitiesToSave : s.isBeingSaved[e]
     THEN [s EXCEPT !.callbacks = Append(@, "error"), !.promise = "rejected",
                    !.error = "ConcurrencyError"]
     ELSE
       LET s1 == clearServerErrors(s, entitiesToSave)
           s2 == saveChangesValidateOnClient(s1, entitiesToSave, invalid)
       IN IF s2.error # Null
          THEN [s2 EXCEPT !.callbacks = Append(@, "error"), !.promise = "rejected"]
          ELSE
            LET s3 == updateConcurrencyProperties(s2, entitiesToSave)
                s4 == [s3 EXCEPT !.adapterCalled = TRUE]
            IN IF adapterThrows
               THEN [markIsBeingSaved(s4, entitiesToSave, FALSE)
                       EXCEPT !.callbacks = Append(@, "error"), !.promise = "rejected",
                              !.error = "AdapterError"]
               ELSE LET sid == FreeSaveId(s4)
                    IN [s4 EXCEPT !.saves = @ \cup
                                   {[id |-> sid, mgr |-> m,
                                     entitiesToSave |-> entitiesToSave,
                                     allowConcurrentSaves |-> allowConcurrentSaves,
                                     sent |-> [e \in entitiesToSave |-> SentOf(s4, e)],
                                     at |-> s.clock + 1,
                                     pre |-> Snapshot(s, m)]},
                                 !.promise = "pending", !.saveId = sid]

(***************************************************************************)
(* Settling a save.  The transport answers a dispatched save either with   *)
(* {entities, keyMappings} or with a rejection carrying entityErrors.      *)
(***************************************************************************)
\* the key mappings of a response: every entity sent as Added with a temp key
\* gets the lowest key the server has not seen in use, as <<tempValue, realValue>>
RECURSIVE AssignKeys(_, _)
AssignKeys(temps, free) ==
  IF temps = {} \/ free = {} THEN {}
  ELSE LET tv == CHOOSE x \in temps : \A y \in temps : x >= y
           rv == CHOOSE x \in free : \A y \in free : x <= y
       IN {<<tv, rv>>} \cup AssignKeys(temps \ {tv}, free \ {rv})

TempsSent(sv) ==
  {sv.sent[e].id : e \in {x \in sv.entitiesToSave :
                            sv.sent[x].entityState = Added /\ sv.sent[x].hasTempKey}}

KeysInUse(s, m) == {s.id[e] : e \in GroupEntities(s, m, "Customer")}

KeyMappingsOf(s, sv) == AssignKeys(TempsSent(sv), RealKeys \ KeysInUse(s, sv.mgr))

RECURSIVE SetFkEach(_, _, _)
\* entity.setProperty("customerId", newValue) for each of the entities
SetFkEach(s, es, newValue) ==
  IF es = {} THEN s
  ELSE LET e == CHOOSE x \in es : TRUE
       IN SetFkEach(setForeignKey(s, e, newValue), es \ {e}, newValue)

\* group._updateFkVal: every Order of the group whose foreign key holds the old
\* value is given the new one.  Modelled from the design (section 4.1).
GroupUpdateFkVal(s, m, oldValue, newValue) ==
  SetFkEach(s, {e \in GroupEntities(s, m, "Order") : s.customerId[e] = oldValue}, newValue)

\* em._updateFkVal for the foreign key property Order.customerId
_updateFkVal(s, m, oldValue, newValue) ==
  IF "Order" \notin DOMAIN s._entityGroupMap[m] THEN s
  ELSE GroupUpdateFkVal(s, m, oldValue, newValue)

\* the setter of the key property of a Customer passes the new key on: to the
\* Orders its navigation property holds, and through em._updateFkVal when only
\* Order.customer is declared.  Modelled from the design (sections 4.1, 4.5).
PropagateKey(s, m, e, oldValue, newValue) ==
  IF TypeOf(e) # "Customer" THEN s
  ELSE LET UpdateFkVal(s1) ==
             IF s1.navShape = "uniChild" THEN _updateFkVal(s1, m, oldValue, newValue) ELSE s1
       IN UpdateFkVal(IF HasParentToChildNp(s)
                      THEN SetFkEach(s, {s.orders[e][i] : i \in 1..Len(s.orders[e])},
                                     newValue)
                      ELSE s)

\* group._fixupKey that does not pass the new key on to the dependents
GroupFixupKey_keepsDependents(s, m, t, tempValue, realValue) ==
  LET e == GroupFindEntityByKey(s, m, t, tempValue)
  IN IF e = Null
     THEN [s EXCEPT !.threw = TRUE, !.error = "KeyFixupError"]
     ELSE [s EXCEPT !.id[e] = realValue,
                    !.remapped = @ \cup {<<m, tempValue, realValue>>},
                    !._entityGroupMap[m][t] =
                       (@ \ {<<tempValue, e>>}) \cup {<<realValue, e>>},
                    !.hasTempKey[e] = FALSE]

\* group._fixupKey: the entity indexed under the temp value gets the real value
\* as its key, which is passed on to its dependents, and is indexed under it.
\* Modelled from the design (section 4.1).
GroupFixupKey(s, m, t, tempValue, realValue) ==
  LET e == GroupFindEntityByKey(s, m, t, tempValue)
  IN IF e = Null
     THEN [s EXCEPT !.threw = TRUE, !.error = "KeyFixupError"]
     ELSE LET s1 == [s EXCEPT !.id[e] = realValue,
                              !.remapped = @ \cup {<<m, tempValue, realValue>>},
                              !._entityGroupMap[m][t] =
                                 (@ \ {<<tempValue, e>>}) \cup {<<realValue, e>>}]
              s2 == PropagateKey(s1, m, e, tempValue, realValue)
          IN [s2 EXCEPT !.hasTempKey[e] = FALSE]

\* km.entityTypeName: a mapping is <<tempValue, realValue>> for a Customer and
\* <<tempValue, realValue, entityTypeName>> for any other type
TypeOfMapping(km) == IF Len(km) > 2 THEN km[3] ELSE "Customer"

RECURSIVE FixupEach(_, _, _)
\* keyMappings.forEach, in the order of the response: by falling tempValue
FixupEach(s, m, keyMappings) ==
  IF keyMappings = {} \/ s.threw THEN s
  ELSE LET km == CHOOSE x \in keyMappings : \A y \in keyMappings : x[1] >= y[1]
           t == TypeOfMapping(km)
           s1 == IF t \notin DOMAIN s._entityGroupMap[m]
                 THEN [s EXCEPT !.threw = TRUE, !.error = "KeyFixupError"]
                 ELSE GroupFixupKey(s, m, t, km[1], km[2])
       IN FixupEach(s1, m, keyMappings \ {km})

fixupKeys(s, m, keyMappings) ==
  LET Fixed(s1) ==
        IF s1.threw THEN s1
        ELSE [s1 EXCEPT !._inKeyFixup[m] = FALSE, !.steps = Append(@, "fixupKeys")]
  IN Fixed(FixupEach([s EXCEPT !._inKeyFixup[m] = TRUE], m, keyMappings))

\* the save merge under PreserveChanges: a cached entity whose values have moved
\* on since they were sent is left as it is
mergeSavedEntity_preservesChanges(s, m, node) ==
  LET t == node.type
      target == GroupFindEntityByKey(s, m, t, node.id)
  IN IF target # Null /\ s.entityState[target] \in ChangedStates /\ s.rowVer[target] # node.rowVer
     THEN s
     ELSE IF target # Null
     THEN IF s.entityState[target] = Deleted
          THEN setDetached(s, target)
          ELSE LET was == s.entityState[target]
                   Notify(s1) ==
                     IF was # Unchanged THEN _notifyStateChange(s1, m, target, FALSE) ELSE s1
               IN Notify([updateTargetFromRaw(s, target, node)
                            EXCEPT !.drifted = IF s.rowVer[target] # node.rowVer
                                               THEN @ \cup {target} ELSE @,
                                   !.entityState[target] = Unchanged,
                                   !.originalValues[target] = NoValues,
                                   !.hasTempKey[target] = FALSE])
     ELSE IF node.entityState = Deleted
     THEN s
     ELSE LET e == FreeInstance(s, t)
          IN IF e = Null THEN [s EXCEPT !.stuck = TRUE]
             ELSE LET s1 == updateTargetFromRaw(NewInstance(s, e, node.id), e, node)
                  IN _attachEntityCore(s1, m, e, Unchanged, OverwriteChanges)

\* the save merge of one returned entity (mergeStrategy OverwriteChanges): a
\* cached Deleted entity leaves the cache, any other cached entity takes the
\* returned values and becomes Unchanged, an entity no longer cached is
\* materialized as Unchanged.  Modelled from the design (section 4.6).
mergeSavedEntity(s, m, node) ==
  LET t == node.type
      target == GroupFindEntityByKey(s, m, t, node.id)
  IN IF target # Null
     THEN IF s.entityState[target] = Deleted
          THEN setDetached(s, target)
          ELSE LET was == s.entityState[target]
                   Notify(s1) ==
                     IF was # Unchanged THEN _notifyStateChange(s1, m, target, FALSE) ELSE s1
               IN Notify([updateTargetFromRaw(s, target, node)
                            EXCEPT !.drifted = IF s.rowVer[target] # node.rowVer
                                               THEN @ \cup {target} ELSE @,
                                   !.entityState[target] = Unchanged,
                                   !.originalValues[target] = NoValues,
                                   !.hasTempKey[target] = FALSE])
     ELSE IF node.entityState = Deleted
     THEN s
     ELSE LET e == FreeInstance(s, t)
          IN IF e = Null THEN [s EXCEPT !.stuck = TRUE]
             ELSE LET s1 == updateTargetFromRaw(NewInstance(s, e, node.id), e, node)
                  IN _attachEntityCore(s1, m, e, Unchanged, OverwriteChanges)

RECURSIVE MergeEach(_, _, _)
MergeEach(s, m, nodes) ==
  IF nodes = {} THEN s
  ELSE LET n == CHOOSE x \in nodes : \A y \in nodes : x.id <= y.id
       IN MergeEach(mergeSavedEntity([s EXCEPT !.steps = Append(@, "merge"),
                                               !.seen = Append(@, StaleFk(s))], m, n),
                    m, nodes \ {n})

\* the real value the key mappings give for a value, or the value itself
MappedValue(keyMappings, v) ==
  IF \E km \in keyMappings : km[1] = v
  THEN (CHOOSE km \in keyMappings : km[1] = v)[2]
  ELSE v

\* the entities of the response: what was sent, under the keys the server
\* assigned, an Order referring to its Customer by the key the server assigned
NodesOf(sv, returned, keyMappings) ==
  {[type |-> sv.sent[e].type,
    id |-> IF sv.sent[e].hasTempKey THEN MappedValue(keyMappings, sv.sent[e].id)
           ELSE sv.sent[e].id,
    rowVer |-> sv.sent[e].rowVer,
    customerId |-> MappedValue(keyMappings, sv.sent[e].customerId),
    entityState |-> sv.sent[e].entityState] : e \in returned}

processSavedEntities(s, sv, returned, keyMappings) ==
  IF returned = {} THEN s
  ELSE LET m == sv.mgr
           Merge(s1) ==
             IF s1.threw THEN s1
             ELSE [MergeEach([s1 EXCEPT !.isLoading[m] = TRUE], m,
                             NodesOf(sv, returned, keyMappings))
                     EXCEPT !.isLoading[m] = s1.isLoading[m]]
       IN Merge(fixupKeys(s, m, keyMappings))

\* addValidationError for every entity the rejection names by a key the cache knows
processServerErrors(s, sv, entityErrors) ==
  LET m == sv.mgr
      named == {GroupFindEntityByKey(s, m, sv.sent[e].type, sv.sent[e].id) : e \in entityErrors}
  IN [s EXCEPT !.validationErrors =
        [e \in Ents |-> IF e \in named THEN @[e] \cup {"server"} ELSE @[e]]]

\* saveFail that leaves the entities marked as being saved
saveFail_keepsMark(s, sv, entityErrors) ==
  LET s2 == processServerErrors(s, sv, entityErrors)
  IN [s2 EXCEPT !.callbacks = Append(@, "error"), !.promise = "rejected",
                !.error = IF @ = Null THEN "ServerSaveError" ELSE @]

saveFail(s, sv, entityErrors) ==
  LET s1 == markIsBeingSaved(s, sv.entitiesToSave, FALSE)
      s2 == processServerErrors(s1, sv, entityErrors)
  IN [s2 EXCEPT !.callbacks = Append(@, "error"), !.promise = "rejected",
                !.error = IF @ = Null THEN "ServerSaveError" ELSE @]

\* saveSuccess for a response with the given key mappings, and saveFail after
\* it when the post-save processing or the success callback throws
saveSuccessOf(s, sv, returned, keyMappings, callbackThrows) ==
  LET m == sv.mgr
      Resolve(s4) ==
        IF callbackThrows
        THEN saveFail([s4 EXCEPT !.error = "CallbackError"], sv, {})
        ELSE [s4 EXCEPT !.promise = "resolved"]
      Callback(s3) ==
        Resolve([s3 EXCEPT !.callbacks = Append(@, "success"),
                           !.steps = Append(@, "callback"),
                           !.seen = Append(@, StaleFk(s3))])
      Processed(s2) ==
        IF s2.threw
        THEN saveFail([s2 EXCEPT !.threw = FALSE], sv, {})
        ELSE Callback(_setHasChanges(s2, m, "null"))
  IN Processed(processSavedEntities(
                 markIsBeingSaved([s EXCEPT !.keyMappings = keyMappings],
                                  sv.entitiesToSave, FALSE),
                 sv, returned, keyMappings))

\* saveSuccess for the response of a server that maps every temp key that was
\* sent, to an application whose success callback returns
saveSuccess(s, sv, returned) ==
  saveSuccessOf(s, sv, returned, KeyMappingsOf(s, sv), FALSE)

Settle(s, sv) == [s EXCEPT !.saves = @ \ {sv}, !.saveId = sv.id, !.settled = sv]

(***************************************************************************)
(* Actions.                                                                *)
(***************************************************************************)
NoOp == [op |-> "init", mgr |-> NoMgr, ent |-> Null, state |-> Null,
         mergeStrategy |-> Null, value |-> 0, invalid |-> {},
         preManager |-> NoMgr, preState |-> Null, preValue |-> 0,
         preHasAspect |-> FALSE, preBeingSaved |-> {}, preKey |-> <<>>,
         allowConcurrentSaves |-> FALSE, entities |-> {}, allChanges |-> FALSE,
         bundle |-> [types |-> <<>>, entities |-> <<>>, tempKeys |-> <<>>],
         preKeyGenerator |-> {}, preCached |-> {}, script |-> <<>>, returned |-> {},
         fresh |-> FALSE, react |-> FALSE, query |-> NoQuery,
         preDetached |-> {}, preAttached |-> {}, preOrders |-> <<>>]

\* the fields of the program state
ProgramFields ==
  {"created", "hasAspect", "entityManager", "entityState", "id", "rowVer",
   "originalValues", "isBeingSaved", "hasTempKey", "validationErrors",
   "_entityGroupMap", "_hasChanges", "_hasChangesAction", "isLoading", "_inKeyFixup",
   "_pendingPubs",
   "keyGenerator", "saves", "customerId", "productId", "customer", "orders",
   "_unattachedChildrenMap"}

\* how often each temp key has been handed out, with what this handler minted
HandedOutWith(minted) ==
  [m \in Mgrs |-> [k \in TempKeys |-> handedOut[m][k] + Count(minted, <<m, k>>)]]

\* the fields a handler left different from what it found
ChangedBy(s) ==
  LET c == Cur IN {f \in ProgramFields : s[f] # c[f]}

\* the state a handler ends in becomes the next state; lastOp keeps what was
\* asked and what came back
Commit(s, op) ==
  /\ created' = s.created
  /\ hasAspect' = s.hasAspect
  /\ entityManager' = s.entityManager
  /\ entityState' = s.entityState
  /\ id' = s.id
  /\ rowVer' = s.rowVer
  /\ originalValues' = s.originalValues
  /\ isBeingSaved' = s.isBeingSaved
  /\ hasTempKey' = s.hasTempKey
  /\ validationErrors' = s.validationErrors
  /\ _entityGroupMap' = s._entityGroupMap
  /\ _hasChanges' = s._hasChanges
  /\ _hasChangesAction' = s._hasChangesAction
  /\ isLoading' = s.isLoading
  /\ _inKeyFixup' = s._inKeyFixup
  /\ _pendingPubs' = s._pendingPubs
  /\ keyGenerator' = s.keyGenerator
  /\ saves' = s.saves
  /\ customerId' = s.customerId
  /\ productId' = s.productId
  /\ customer' = s.customer
  /\ orders' = s.orders
  /\ _unattachedChildrenMap' = s._unattachedChildrenMap
  /\ navShape' = navShape
  /\ handedOut' = HandedOutWith(s.minted)
  /\ opCount' = opCount + 1
  /\ lastOp' = [op |-> op.op, mgr |-> op.mgr, ent |-> op.ent, state |-> op.state,
                mergeStrategy |-> op.mergeStrategy,
                value |-> op.value, invalid |-> op.invalid,
                preManager |-> op.preManager, preState |-> op.preState,
                preValue |-> op.preValue, preHasAspect |-> op.preHasAspect,
                preBeingSaved |-> op.preBeingSaved, preKey |-> op.preKey,
                changed |-> ChangedBy(s), settled |-> s.settled,
                ret |-> s.ret, threw |-> s.threw, pubs |-> s.pubs,
                callbacks |-> s.callbacks, error |-> s.error,
                adapterCalled |-> s.adapterCalled, promise |-> s.promise,
                saveId |-> s.saveId,
                allowConcurrentSaves |-> op.allowConcurrentSaves,
                entities |-> op.entities, allChanges |-> op.allChanges,
                bundle |-> op.bundle, preKeyGenerator |-> op.preKeyGenerator,
                preCached |-> op.preCached, script |-> op.script,
                returned |-> op.returned, fresh |-> op.fresh, start |-> lastOp.start,
                react |-> op.react, enqueued |-> s.enqueued, delivered |-> s.delivered,
                loadingLog |-> s.loadingLog, query |-> op.query, result |-> s.result,
                drifted |-> s.drifted,
                preDetached |-> op.preDetached, preAttached |-> op.preAttached,
                preOrders |-> op.preOrders, inProcess |-> s.inProcess,
                minted |-> s.minted, tempKeyMap |-> s.tempKeyMap,
                sawStaleFk |-> \E i \in 1..Len(s.seen) : s.seen[i],
                keyMappings |-> s.keyMappings, steps |-> s.steps,
                imported |-> s.entitiesToLink]

Op(name, m, e) ==
  [NoOp EXCEPT !.op = name, !.mgr = m, !.ent = e,
               !.preManager = IF e = Null THEN NoMgr ELSE entityManager[e],
               !.preState = IF e = Null THEN Null ELSE entityState[e],
               !.preValue = IF e = Null THEN 0 ELSE rowVer[e],
               !.preHasAspect = IF e = Null THEN FALSE ELSE hasAspect[e],
               !.preBeingSaved = {x \in Ents : isBeingSaved[x]},
               !.preKey = IF e = Null THEN <<>> ELSE KeyValues(Cur, e)]

\* the behaviour may run one more operation
MayRun == opCount < MaxOps

\* a temp key can still be minted by the manager's generator
CanMint(m) == Cardinality(keyGenerator[m]) < MaxTempKeys

\* the key the entity will be indexed under if attached now in the given state
KeyAtAttach(m, e, state) ==
  IF state = Added /\ id[e] = DefaultKey /\ AutoGeneratedKey(TypeOf(e))
  THEN NextTempKey(keyGenerator[m]) ELSE id[e]

\* the attach collides with another cached entity, so the merge strategy decides
StrategyMatters(m, e, state) ==
  /\ TypeOf(e) \in DOMAIN _entityGroupMap[m]
  /\ \E pr \in _entityGroupMap[m][TypeOf(e)] : pr[1] = KeyAtAttach(m, e, state) /\ pr[2] # e

\* the application calls em.attachEntity
Attaches(m, e, state, mergeStrategy) ==
  /\ e \in created
  /\ (state = Added /\ id[e] = DefaultKey /\ entityManager[e] = NoMgr) => CanMint(m)
  /\ \E s \in {attachEntity(Cur, m, e, state, mergeStrategy)} :
       Commit(s, [Op("attachEntity", m, e) EXCEPT !.state = state,
                                                  !.mergeStrategy = mergeStrategy])

AttachEntity(m, e, state, mergeStrategy) == MayRun /\ Attaches(m, e, state, mergeStrategy)

CreateEntity(m, e, key, state, mergeStrategy) ==
  /\ MayRun
  /\ e \in PoolEnts \ created
  /\ (state = Added /\ key = DefaultKey) => CanMint(m)
  /\ \E s \in {createEntity(Cur, m, e, key, state, mergeStrategy)} :
       Commit(s, [Op("createEntity", m, e) EXCEPT !.state = state,
                                                  !.mergeStrategy = mergeStrategy])

DetachEntity(m, e) ==
  /\ MayRun
  /\ e \in created
  /\ \E s \in {detachEntity(Cur, m, e)} : Commit(s, Op("detachEntity", m, e))

SetProperty(e, v) ==
  /\ MayRun
  /\ e \in created
  /\ hasAspect[e]
  /\ v # rowVer[e]
  /\ \E s \in {setProperty(Cur, e, v)} : Commit(s, Op("setProperty", entityManager[e], e))

AcceptChanges(e) ==
  /\ MayRun
  /\ e \in created
  /\ entityManager[e] # NoMgr
  /\ \E s \in {AspectAcceptChanges(Cur, e)} : Commit(s, Op("acceptChanges", entityManager[e], e))

RejectChanges(m) ==
  /\ MayRun
  /\ \E s \in {rejectChanges(Cur, m)} : Commit(s, Op("rejectChanges", m, Null))

Clear(m) ==
  /\ MayRun
  /\ \E s \in {clear(Cur, m)} : Commit(s, Op("clear", m, Null))

\* what saveChanges is passed as its entities: nothing, or a list
AllChanges == [isNull |-> TRUE, list |-> {}]
ListOf(es) == [isNull |-> FALSE, list |-> es]

\* the application calls em.saveChanges
Saves(m, entities, allowConcurrentSaves, invalid, adapterThrows) ==
  /\ Cardinality(saves) < MaxInFlight
  /\ entities.list \subseteq created
  /\ \A e \in entities.list : hasAspect[e]
  /\ invalid \subseteq
       {e \in getEntitiesToSave(Cur, m, entities).entitiesToSave : entityState[e] # Deleted}
  /\ \E s \in {saveChanges(Cur, m, entities, allowConcurrentSaves, invalid, adapterThrows)} :
       /\ \A e \in Ents : s.rowVer[e] <= MaxRowVer
       /\ adapterThrows => s.adapterCalled
       /\ Commit(s, [Op("saveChanges", m, Null)
                       EXCEPT !.allowConcurrentSaves = allowConcurrentSaves,
                              !.invalid = invalid,
                              !.allChanges = entities.isNull,
                              !.entities = IF entities.isNull THEN getChanges(Cur, m)
                                           ELSE entities.list])

SaveChanges(m, entities, allowConcurrentSaves, invalid, adapterThrows) ==
  MayRun /\ Saves(m, entities, allowConcurrentSaves, invalid, adapterThrows)

\* the transport resolves the adapter's promise of a dispatched save
TransportResolves(sv, returned) ==
  /\ sv \in saves
  /\ Cardinality(KeyMappingsOf(Cur, sv)) = Cardinality(TempsSent(sv))
  /\ \E s \in {Settle(saveSuccess(Cur, sv, returned), sv)} :
       /\ ~s.stuck
       /\ Commit(s, [Op("saveSuccess", sv.mgr, Null) EXCEPT !.entities = sv.entitiesToSave,
                                                            !.returned = returned])

SaveSuccess(sv, returned) == MayRun /\ TransportResolves(sv, returned)

\* the transport rejects the adapter's promise of a dispatched save
TransportRejects(sv, entityErrors) ==
  /\ sv \in saves
  /\ \E s \in {Settle(saveFail(Cur, sv, entityErrors), sv)} :
       Commit(s, [Op("saveFail", sv.mgr, Null) EXCEPT !.entities = sv.entitiesToSave])

SaveFail(sv, entityErrors) == MayRun /\ TransportRejects(sv, entityErrors)

\* the bundles the application imports: one raw entity, listed as a temp key
\* exactly when it is an Added entity with a temporary key
\* (the raw rowVer differs from the 0 a new entity has)
RawRowVers == {1}
RawEntities ==
  [type : {"Customer"}, id : {1}, rowVer : RawRowVers, customerId : {DefaultKey},
   entityState : AttachedStates, tempNavPropNames : {FALSE}]
    \cup [type : {"Customer"}, id : {TempKeyOf(1)}, rowVer : RawRowVers,
          customerId : {DefaultKey}, entityState : {Added}, tempNavPropNames : {FALSE}]
BundleOf(raw) ==
  [types |-> <<"Customer">>, entities |-> <<raw>>,
   tempKeys |-> IF IsTempKey(raw.id) THEN <<<<"Customer", raw.id>>>> ELSE <<>>]

\* the import meets a cached entity, so the merge strategy decides
ImportCollides(m, raw) ==
  /\ ~IsTempKey(raw.id)
  /\ "Customer" \in DOMAIN _entityGroupMap[m]
  /\ \E pr \in _entityGroupMap[m]["Customer"] : pr[1] = raw.id

ImportEntities(m, raw, mergeStrategy) ==
  /\ MayRun
  /\ IsTempKey(raw.id) => CanMint(m)
  /\ ~ImportCollides(m, raw) => PoolEnts \ created # {}
  /\ \E s \in {importEntities(Cur, m, BundleOf(raw), mergeStrategy)} :
       Commit(s, [Op("importEntities", m,
                       IF ImportCollides(m, raw)
                       THEN getEntityByKey(Cur, m, "Customer", raw.id) ELSE Null)
                    EXCEPT !.state = raw.entityState, !.value = raw.rowVer,
                           !.mergeStrategy = mergeStrategy,
                           !.bundle = BundleOf(raw),
                           !.preKeyGenerator = keyGenerator[m]])

\* what is the same in every initial state: nothing is attached, no manager
\* has a group, a change or a save, no generator has handed out a key
InitEmpty ==
  /\ entityManager = [e \in Ents |-> NoMgr]
  /\ entityState = [e \in Ents |-> Detached]
  /\ rowVer = [e \in Ents |-> 0]
  /\ originalValues = [e \in Ents |-> NoValues]
  /\ isBeingSaved = [e \in Ents |-> FALSE]
  /\ hasTempKey = [e \in Ents |-> FALSE]
  /\ validationErrors = [e \in Ents |-> {}]
  /\ _entityGroupMap = [m \in Mgrs |-> NoValues]
  /\ _hasChanges = [m \in Mgrs |-> FALSE]
  /\ _hasChangesAction = [m \in Mgrs |-> Null]
  /\ isLoading = [m \in Mgrs |-> FALSE]
  /\ _inKeyFixup = [m \in Mgrs |-> FALSE]
  /\ _pendingPubs = [m \in Mgrs |-> NoPendingPubs]
  /\ keyGenerator = [m \in Mgrs |-> {}]
  /\ saves = {}
  /\ productId = [e \in Ents |-> DefaultKey]
  /\ customer = [e \in Ents |-> Null]
  /\ orders = [e \in Ents |-> <<>>]
  /\ _unattachedChildrenMap = [m \in Mgrs |-> {}]
  /\ handedOut = [m \in Mgrs |-> [k \in TempKeys |-> 0]]
  /\ opCount = 0

\* lastOp before any operation has run
InitOp(start) ==
  [op |-> "init", mgr |-> NoMgr, ent |-> Null, state |-> Null,
   mergeStrategy |-> Null, value |-> 0, invalid |-> {},
   preManager |-> NoMgr, preState |-> Null, preValue |-> 0,
   preHasAspect |-> FALSE, preBeingSaved |-> {}, preKey |-> <<>>,
   changed |-> {}, settled |-> NoSave,
   ret |-> Null, threw |-> FALSE, pubs |-> <<>>,
   callbacks |-> <<>>, error |-> Null, adapterCalled |-> FALSE,
   promise |-> Null, saveId |-> 0, allowConcurrentSaves |-> FALSE,
   entities |-> {}, allChanges |-> FALSE,
   bundle |-> NoOp.bundle, preKeyGenerator |-> {}, preCached |-> {},
   script |-> <<>>, returned |-> {}, fresh |-> FALSE, start |-> start,
   react |-> FALSE, enqueued |-> <<>>, delivered |-> <<>>, loadingLog |-> <<>>,
   query |-> NoQuery, result |-> NoResult, drifted |-> {},
   preDetached |-> {}, preAttached |-> {}, preOrders |-> <<>>, inProcess |-> {},
   minted |-> <<>>, tempKeyMap |-> {}, sawStaleFk |-> FALSE,
   keyMappings |-> {}, steps |-> <<>>, imported |-> <<>>]

Init ==
  /\ InitEmpty
  /\ created = UserEnts
  /\ hasAspect = [e \in Ents |-> e = "u1"]
  /\ id \in {f \in [Ents -> UserKeys] : f["u1"] = 1 /\ \A e \in Ents \ UserEnts : f[e] = DefaultKey}
  /\ customerId = [e \in Ents |-> DefaultKey]
  /\ navShape = "biCollection"
  /\ lastOp = InitOp(Null)

\* The application's calls.  A merge strategy other than the default is passed
\* where it decides the outcome; a second attach of an owned entity and
\* createEntity are called with their default arguments (NextAttach passes
\* every argument to a second attach).
Next ==
  \/ \E m \in Mgrs, e \in created, state \in AttachedStates, ms \in MergeStrategies :
       /\ entityManager[e] # NoMgr => (state = Unchanged /\ ms = Disallowed)
       /\ (entityManager[e] = NoMgr /\ ms # Disallowed) => StrategyMatters(m, e, state)
       /\ AttachEntity(m, e, state, ms)
  \/ \E e \in PoolEnts \ created, k \in UserKeys, state \in {Added, Unchanged, Detached} :
       CreateEntity("em1", e, k, state, Disallowed)
  \/ \E m \in Mgrs, e \in created : DetachEntity(m, e)
  \/ \E e \in created, v \in UserRowVers : SetProperty(e, v)
  \/ \E e \in created : AcceptChanges(e)
  \/ RejectChanges("em1")
  \/ Clear("em1")
  \/ \E raw \in RawEntities, ms \in MergeStrategies :
       /\ ms # Disallowed => ImportCollides("em1", raw)
       /\ ImportEntities("em1", raw, ms)
  \/ \E allow \in BOOLEAN, invalid \in {{}} \cup {{e} : e \in created},
          adapterThrows \in BOOLEAN :
       /\ ~(invalid # {} /\ adapterThrows)
       /\ SaveChanges("em1", AllChanges, allow, invalid, adapterThrows)
  \/ \E sv \in saves :
       \E returned \in SUBSET sv.entitiesToSave : SaveSuccess(sv, returned)
  \/ \E sv \in saves :
       \E entityErrors \in SUBSET sv.entitiesToSave : SaveFail(sv, entityErrors)

Spec == Init /\ [][Next]_vars

(***************************************************************************)
(* The attach protocol alone: every entity state and every merge strategy  *)
(* is passed to every attach, also to the attach of an entity that already *)
(* has a manager.                                                          *)
(***************************************************************************)
NextAttach ==
  \/ \E m \in Mgrs, e \in UserEnts, state \in AttachedStates, ms \in MergeStrategies :
       AttachEntity(m, e, state, ms)
  \/ \E m \in Mgrs, e \in UserEnts : DetachEntity(m, e)
  \/ \E e \in UserEnts, v \in UserRowVers : SetProperty(e, v)

SpecAttach == Init /\ [][NextAttach]_vars

(***************************************************************************)
(* One manager whose saves all run with allowConcurrentSaves = false, for  *)
(* all pending changes or for a list of one entity.                        *)
(***************************************************************************)
NextSave ==
  \/ \E e \in UserEnts, state \in AttachedStates : AttachEntity("em1", e, state, Disallowed)
  \/ \E e \in UserEnts, v \in UserRowVers : SetProperty(e, v)
  \/ \E entities \in {AllChanges, ListOf({})} \cup {ListOf({e}) : e \in UserEnts},
        invalid \in SUBSET UserEnts, adapterThrows \in BOOLEAN :
       /\ Cardinality(invalid) <= 1
       /\ ~(invalid # {} /\ adapterThrows)
       /\ SaveChanges("em1", entities, FALSE, invalid, adapterThrows)
  \/ \E sv \in saves, returned \in SUBSET Ents :
       /\ returned \subseteq sv.entitiesToSave
       /\ SaveSuccess(sv, returned)
  \/ \E sv \in saves, entityErrors \in SUBSET Ents :
       /\ entityErrors \subseteq sv.entitiesToSave
       /\ SaveFail(sv, entityErrors)

SpecSave == Init /\ [][NextSave]_vars

(***************************************************************************)
(* The same manager with a transport that answers every dispatched save:   *)
(* the application stops calling after MaxOps operations, the transport    *)
(* still resolves or rejects what is in flight.                            *)
(***************************************************************************)
TransportSettles ==
  \E sv \in saves :
    \/ \E returned \in SUBSET sv.entitiesToSave : TransportResolves(sv, returned)
    \/ \E entityErrors \in SUBSET sv.entitiesToSave : TransportRejects(sv, entityErrors)

NextSaveLive ==
  \/ \E e \in UserEnts, state \in AttachedStates : AttachEntity("em1", e, state, Disallowed)
  \/ \E e \in UserEnts, v \in UserRowVers : SetProperty(e, v)
  \/ \E entities \in {AllChanges} \cup {ListOf({e}) : e \in UserEnts},
        allow \in BOOLEAN, adapterThrows \in BOOLEAN :
       SaveChanges("em1", entities, allow, {}, adapterThrows)
  \/ TransportSettles

SpecSaveLive == Init /\ [][NextSaveLive]_vars /\ WF_vars(TransportSettles)

(***************************************************************************)
(* The key fixup of a save over Customers and their Orders: one manager,   *)
(* Customers attached as Added under temp keys, Orders whose foreign key   *)
(* holds a Customer's temp key, saves of all changes or of one Customer,   *)
(* responses carrying any part of what was sent.                           *)
(***************************************************************************)
MaxNavOps == 5

\* the foreign keys the application gave the Orders before attaching them
NavForeignKeys == {DefaultKey, TempKeyOf(1), TempKeyOf(2)}

InitNav ==
  /\ InitEmpty
  /\ created = UserEnts \cup OrderEnts
  /\ hasAspect = [e \in Ents |-> FALSE]
  /\ id = [e \in Ents |-> IF e = "o1" THEN 1 ELSE IF e = "o2" THEN 2 ELSE DefaultKey]
  /\ customerId \in {f \in [Ents -> NavForeignKeys] :
                        /\ f["o1"] = TempKeyOf(1)
                        /\ \A e \in Ents \ OrderEnts : f[e] = DefaultKey}
  /\ navShape \in NavShapes
  /\ lastOp = InitOp(Null)

NavMayRun == opCount < MaxNavOps

NavAttach(e, state) ==
  /\ NavMayRun
  /\ entityManager[e] = NoMgr
  /\ TypeOf(e) = "Customer" => state = Added
  /\ Attaches("em1", e, state, Disallowed)

NavSave(entities) ==
  /\ NavMayRun
  /\ \E e \in UserEnts : hasTempKey[e]
  /\ \A e \in entities.list : hasTempKey[e]
  /\ Saves("em1", entities, FALSE, {}, FALSE)

NavSuccess(sv, returned) == NavMayRun /\ TransportResolves(sv, returned)

NavFail(sv) == NavMayRun /\ TransportRejects(sv, {})

NextNav ==
  \/ \E e \in UserEnts \cup OrderEnts, state \in {Added, Unchanged} : NavAttach(e, state)
  \/ \E es \in SUBSET UserEnts :
       NavSave(IF es = {} THEN AllChanges ELSE ListOf(es))
  \/ \E sv \in saves : \E returned \in SUBSET sv.entitiesToSave : NavSuccess(sv, returned)
  \/ \E sv \in saves : NavFail(sv)

SpecNav == InitNav /\ [][NextNav]_vars

(***************************************************************************)
(* Linking by attach order: one manager, Customers and Orders that have    *)
(* their keys and foreign keys before they are attached, every navigation  *)
(* shape, attaches in every order, a second instance of a cached key       *)
(* merged in with OverwriteChanges.  lastOp.script is the sequence of the  *)
(* attaches made, lastOp.start the keys the entities started with.         *)
(***************************************************************************)
InitLink ==
  /\ InitEmpty
  /\ created = UserEnts \cup OrderEnts
  /\ hasAspect = [e \in Ents |-> FALSE]
  /\ id \in {f \in [Ents -> {DefaultKey} \cup RealKeys] :
                /\ f["u1"] = 1 /\ f["u2"] \in {1, 2} /\ f["o1"] = 1 /\ f["o2"] = 2
                /\ \A e \in Ents \ (UserEnts \cup OrderEnts) : f[e] = DefaultKey}
  /\ customerId \in {f \in [Ents -> {DefaultKey} \cup RealKeys] :
                        /\ f["o1"] = 1 /\ f["o2"] \in {1, 2}
                        /\ \A e \in Ents \ OrderEnts : f[e] = DefaultKey}
  /\ navShape \in NavShapes
  /\ lastOp = InitOp([id |-> id, customerId |-> customerId])

LinkAttach(e, state, mergeStrategy) ==
  /\ MayRun
  /\ entityManager[e] = NoMgr
  /\ mergeStrategy # Disallowed => StrategyMatters("em1", e, state)
  /\ \E s \in {attachEntity(Cur, "em1", e, state, mergeStrategy)} :
       Commit(s, [Op("attachEntity", "em1", e)
                    EXCEPT !.state = state, !.mergeStrategy = mergeStrategy,
                           !.script = Append(lastOp.script, <<e, state, mergeStrategy>>)])

NextLink ==
  \E e \in UserEnts \cup OrderEnts, state \in {Unchanged, Added},
     ms \in {Disallowed, OverwriteChanges} : LinkAttach(e, state, ms)

SpecLink == InitLink /\ [][NextLink]_vars

(***************************************************************************)
(* The temp keys of one manager: Customers attached as Added with no key,  *)
(* em.generateTempKeyValue on a Customer that is in no manager, imports of *)
(* a bundle holding a temp-keyed Added Customer, and clear.                *)
(***************************************************************************)
InitKeys ==
  /\ InitEmpty
  /\ created = UserEnts
  /\ hasAspect = [e \in Ents |-> e \in UserEnts]
  /\ id = [e \in Ents |-> DefaultKey]
  /\ customerId = [e \in Ents |-> DefaultKey]
  /\ navShape = "biCollection"
  /\ lastOp = InitOp(Null)

KeysAttach(e) ==
  /\ MayRun
  /\ entityManager[e] = NoMgr
  /\ Attaches("em1", e, Added, Disallowed)

GenerateTempKeyValue(m, e) ==
  /\ MayRun
  /\ e \in created /\ hasAspect[e] /\ entityManager[e] = NoMgr
  /\ CanMint(m)
  /\ \E s \in {generateTempKeyValue(Cur, m, e)} :
       Commit(s, Op("generateTempKeyValue", m, e))

NextKeys ==
  \/ \E e \in UserEnts : KeysAttach(e)
  \/ \E e \in UserEnts : GenerateTempKeyValue("em1", e)
  \/ \E raw \in {r \in RawEntities : IsTempKey(r.id)} :
       ImportEntities("em1", raw, OverwriteChanges)
  \/ Clear("em1")

SpecKeys == InitKeys /\ [][NextKeys]_vars

(***************************************************************************)
(* Export and import between two managers: Customers and Orders attached   *)
(* to em1, Customers attached to em2, and em2.importEntities of what       *)
(* em1.exportEntities() returns.                                           *)
(***************************************************************************)
InitRound ==
  /\ InitEmpty
  /\ created = UserEnts \cup OrderEnts
  /\ hasAspect = [e \in Ents |-> FALSE]
  /\ id \in {f \in [Ents -> UserKeys \cup {2}] :
                /\ f["u1"] = DefaultKey /\ f["u2"] \in UserKeys
                /\ f["o1"] = 1 /\ f["o2"] = 2
                /\ \A e \in Ents \ (UserEnts \cup OrderEnts) : f[e] = DefaultKey}
  /\ customerId \in {f \in [Ents -> NavForeignKeys] :
                        /\ f["o1"] = TempKeyOf(1) /\ f["o2"] # TempKeyOf(2)
                        /\ \A e \in Ents \ OrderEnts : f[e] = DefaultKey}
  /\ navShape \in NavShapes
  /\ lastOp = InitOp(Null)

RoundAttach(m, e, state) ==
  /\ MayRun
  /\ entityManager[e] = NoMgr
  /\ TypeOf(e) = "Order" => m = "em1"
  /\ (TypeOf(e) = "Customer" /\ id[e] = DefaultKey) => state = Added
  /\ Attaches(m, e, state, Disallowed)

\* a fresh manager: it has no group, no buffered child and a generator that
\* has handed out nothing
IsFresh(m) ==
  /\ _entityGroupMap[m] = NoValues
  /\ _unattachedChildrenMap[m] = {}
  /\ keyGenerator[m] = {}

\* em2.importEntities(em1.exportEntities())
ExportImport(mergeStrategy) ==
  /\ MayRun
  /\ CachedEntities(Cur, "em1") # {}
  /\ \A t \in Types :
       Cardinality(GroupEntities(Cur, "em1", t))
         <= Cardinality({e \in Ents \ created : TypeOf(e) = t})
  /\ LET bundle == exportEntityGroups(Cur, "em1")
     IN \E s \in {importEntities(Cur, "em2", bundle, mergeStrategy)} :
          Commit(s, [Op("importEntities", "em2", Null)
                       EXCEPT !.mergeStrategy = mergeStrategy,
                              !.bundle = bundle,
                              !.preKeyGenerator = keyGenerator["em2"],
                              !.preCached = CachedEntities(Cur, "em2"),
                              !.fresh = IsFresh("em2")])

NextRound ==
  \/ \E m \in Mgrs, e \in UserEnts \cup OrderEnts, state \in AttachedStates :
       RoundAttach(m, e, state)
  \/ \E e \in UserEnts \cup OrderEnts : entityManager[e] = "em1" /\ SetProperty(e, 1)
  \/ \E ms \in {PreserveChanges, OverwriteChanges} : ExportImport(ms)

SpecRound == InitRound /\ [][NextRound]_vars

(***************************************************************************)
(* The key check of an attach: a Customer (generated key), an Order (one   *)
(* key property) and an OrderDetail (two key properties) whose key         *)
(* properties the application sets, or leaves unset, before it attaches    *)
(* them.                                                                   *)
(***************************************************************************)
KeyCheckEnts == {"u1", "o1", "d1"}

InitKeyCheck ==
  /\ InitEmpty
  /\ created = KeyCheckEnts
  /\ hasAspect = [e \in Ents |-> FALSE]
  /\ id = [e \in Ents |-> DefaultKey]
  /\ customerId = [e \in Ents |-> DefaultKey]
  /\ navShape = "biCollection"
  /\ lastOp = InitOp(Null)

\* the setter of a key property of an entity that is in no manager: the value
\* is written.  Modelled from the design (section 4.1).
setKeyProperty(s, e, prop, v) ==
  IF prop = "id" THEN [s EXCEPT !.id[e] = v] ELSE [s EXCEPT !.productId[e] = v]

\* the application sets a key property of an entity it has not attached
SetKeyProperty(e, prop, v) ==
  /\ MayRun
  /\ e \in created
  /\ entityManager[e] = NoMgr
  /\ prop = "productId" => TypeOf(e) = "OrderDetail"
  /\ v # (IF prop = "id" THEN id[e] ELSE productId[e])
  /\ \E s \in {setKeyProperty(Cur, e, prop, v)} : Commit(s, Op("setKeyProperty", NoMgr, e))

KeyCheckAttach(m, e, state) ==
  /\ MayRun
  /\ entityManager[e] = NoMgr
  /\ Attaches(m, e, state, Disallowed)

NextKeyCheck ==
  \/ \E e \in KeyCheckEnts, prop \in {"id", "productId"}, v \in UserKeys :
       SetKeyProperty(e, prop, v)
  \/ \E e \in KeyCheckEnts, state \in {Added, Unchanged} : KeyCheckAttach("em1", e, state)
  \/ \E e \in KeyCheckEnts : entityManager[e] # NoMgr /\ DetachEntity(entityManager[e], e)

SpecKeyCheck == InitKeyCheck /\ [][NextKeyCheck]_vars

(***************************************************************************)
(* Bulk operations: the wrappers that open the pending queue and the       *)
(* loading scope around a body.  What the body does is an input: a script  *)
(* of steps, each a notification handed to the enqueuer, an exception, or  *)
(* another wrapped operation that a subscriber of a direct event starts    *)
(* while the body runs.                                                    *)
(***************************************************************************)
MaxBodyLen == 2
MaxInnerLen == 1
MaxBulkOps == 2

BulkOps == {"importEntities", "executeQuery", "processSavedEntities", "attachEntity"}

Step(k, op, body) == [k |-> k, op |-> op, body |-> body]

LeafSteps == {Step("notify", "", <<>>), Step("throw", "", <<>>)}

SeqsUpTo(S, n) == UNION {[1..k -> S] : k \in 0..n}

InnerBodies == SeqsUpTo(LeafSteps, MaxInnerLen)

Steps == LeafSteps \cup {Step("run", op, body) : op \in BulkOps, body \in InnerBodies}

Bodies == SeqsUpTo(Steps, MaxBodyLen)

\* a notification closure: where in the script it was made, and whether a
\* subscriber made it while it handled another notification
Note(path, reaction) == [path |-> path, reaction |-> reaction]

\* a closure runs: the notification reaches the subscribers.  early: the body
\* during which it was queued has not finished.  A reacting subscriber hands
\* a notification of its own to the enqueuer.
Deliver(s, m, r, fn, queued) ==
  LET Subscriber(s1) ==
        IF r /\ ~fn.note.reaction
        THEN IF s1._pendingPubs[m].active
             THEN [s1 EXCEPT !._pendingPubs[m].fns =
                               Append(@, [note |-> Note(fn.note.path, TRUE),
                                          depth |-> Len(s1.running)]),
                             !.enqueued = Append(@, Note(fn.note.path, TRUE))]
             ELSE [s1 EXCEPT !.delivered =
                               Append(@, [note |-> Note(fn.note.path, TRUE),
                                          queued |-> FALSE, early |-> FALSE])]
        ELSE s1
  IN Subscriber([s EXCEPT !.delivered =
                   Append(@, [note |-> fn.note, queued |-> queued,
                              early |-> queued /\ Len(s.running) >= fn.depth])])

\* the enqueuers (relation arrays and aspects, outside this file): the closure
\* is pushed when the manager has a pending queue and run at once when it
\* has none.  Modelled from the design (section 4.7).
Enqueue(s, m, r, note) ==
  LET fn == [note |-> note, depth |-> Len(s.running)]
  IN IF s._pendingPubs[m].active
     THEN [s EXCEPT !._pendingPubs[m].fns = Append(@, fn), !.enqueued = Append(@, note)]
     ELSE Deliver(s, m, r, fn, FALSE)

\* _pendingPubs.forEach(fn => fn()): the elements below the length the array
\* had when the call began are visited
RECURSIVE PendingPubsForEach(_, _, _, _, _)
PendingPubsForEach(s, m, r, i, len) ==
  IF i > len THEN s
  ELSE PendingPubsForEach(Deliver(s, m, r, s._pendingPubs[m].fns[i], TRUE), m, r, i + 1, len)

\* the end of both wrappers: flush, drop the queue, run the deferred
\* hasChanges action.  forEach of a null queue throws.
FlushPendingPubs(s, m, r) ==
  LET Flushed(s1) == RunHasChangesAction([s1 EXCEPT !._pendingPubs[m] = NoPendingPubs], m)
  IN IF ~s._pendingPubs[m].active
     THEN [s EXCEPT !.threw = TRUE]
     ELSE Flushed(PendingPubsForEach(s, m, r, 1, Len(s._pendingPubs[m].fns)))

\* what a step of a body sees of the loading flag, and what a scope leaves
LogStep(s, m) ==
  [s EXCEPT !.loadingLog = Append(@, [k |-> "step", scopes |-> s.scopes,
                                      isLoading |-> s.isLoading[m], entry |-> s.isLoading[m]])]

LogExit(s, m, entry) ==
  [s EXCEPT !.scopes = @ - 1,
            !.loadingLog = Append(@, [k |-> "exit", scopes |-> s.scopes - 1,
                                      isLoading |-> s.isLoading[m], entry |-> entry])]

EnterBody(s) == [s EXCEPT !.running = Append(@, Len(@) + 1)]

LeaveBody(s) == [s EXCEPT !.running = SubSeq(@, 1, Len(@) - 1)]

RECURSIVE RunBody(_, _, _, _, _, _)
RECURSIVE importEntitiesWrapped(_, _, _, _, _)
RECURSIVE executeQueryCoreWrapped(_, _, _, _, _)
RECURSIVE usingIsLoading(_, _, _, _, _)

\* the wrapper of importEntities: __wrapExecution(start, end, body) runs start,
\* then the body, and end in a finally
importEntitiesWrapped(s, m, r, body, path) ==
  LET End(s1) == FlushPendingPubs(LeaveBody(s1), m, r)
  IN End(RunBody(EnterBody([s EXCEPT !._pendingPubs[m] = [active |-> TRUE, fns |-> <<>>]]),
                 m, r, body, 1, path))

\* executeQueryCoreWrapped with a cleanup that clears the flag instead of
\* putting back the value it had at the start
executeQueryCoreWrapped_clearsFlag(s, m, r, body, path) ==
  LET state == [isLoading |-> s.isLoading[m]]
      Cleanup(s1) == FlushPendingPubs(LogExit(s1, m, state.isLoading), m, r)
      End(s1) == Cleanup(LeaveBody([s1 EXCEPT !.isLoading[m] = FALSE]))
  IN End(RunBody(EnterBody([s EXCEPT !.isLoading[m] = TRUE, !.scopes = @ + 1,
                                     !._pendingPubs[m] = [active |-> TRUE, fns |-> <<>>]]),
                 m, r, body, 1, path))

\* the wrapper of the merge of a query's results
executeQueryCoreWrapped(s, m, r, body, path) ==
  LET state == [isLoading |-> s.isLoading[m]]
      Cleanup(s1) == FlushPendingPubs(LogExit(s1, m, state.isLoading), m, r)
      End(s1) == Cleanup(LeaveBody([s1 EXCEPT !.isLoading[m] = state.isLoading]))
  IN End(RunBody(EnterBody([s EXCEPT !.isLoading[m] = TRUE, !.scopes = @ + 1,
                                     !._pendingPubs[m] = [active |-> TRUE, fns |-> <<>>]]),
                 m, r, body, 1, path))

\* __using(em, "isLoading", true, body): the flag is set for the body and put
\* back in a finally; nothing is done when it is true already.  Modelled from
\* the design (section 4.7).
usingIsLoading(s, m, r, body, path) ==
  LET originalValue == s.isLoading[m]
      End(s1) == LogExit(LeaveBody([s1 EXCEPT !.isLoading[m] = originalValue]), m, originalValue)
  IN End(RunBody(EnterBody([s EXCEPT !.isLoading[m] = TRUE, !.scopes = @ + 1]),
                 m, r, body, 1, path))

\* one wrapped operation
RunOp(s, m, r, op, body, path) ==
  CASE op = "importEntities" -> importEntitiesWrapped(s, m, r, body, path)
    [] op = "executeQuery" -> executeQueryCoreWrapped(s, m, r, body, path)
    [] OTHER -> usingIsLoading(s, m, r, body, path)

\* the steps of a body from the i-th on; an exception ends the body
RunBody(s, m, r, body, i, path) ==
  IF i > Len(body) \/ s.threw THEN s
  ELSE RunBody(CASE body[i].k = "notify" ->
                      Enqueue(LogStep(s, m), m, r, Note(Append(path, i), FALSE))
                 [] body[i].k = "throw" -> [LogStep(s, m) EXCEPT !.threw = TRUE]
                 [] OTHER -> RunOp(s, m, r, body[i].op, body[i].body, Append(path, i)),
               m, r, body, i + 1, path)

InitBulk ==
  /\ InitEmpty
  /\ created = {}
  /\ hasAspect = [e \in Ents |-> FALSE]
  /\ id = [e \in Ents |-> DefaultKey]
  /\ customerId = [e \in Ents |-> DefaultKey]
  /\ navShape = "biCollection"
  /\ lastOp = InitOp(Null)

\* a bulk operation of the manager runs from its start to its end
Bulk(m, op, body, r) ==
  /\ opCount < MaxBulkOps
  /\ \E s \in {RunOp(Cur, m, r, op, body, <<>>)} :
       Commit(s, [Op(op, m, Null) EXCEPT !.script = body, !.react = r])

NextBulk == \E op \in BulkOps, body \in Bodies, r \in BOOLEAN : Bulk("em1", op, body, r)

SpecBulk == InitBulk /\ [][NextBulk]_vars

(***************************************************************************)
(* The local query.  Customers are attached, changed and deleted, and a    *)
(* query is evaluated over the cache.  The index of a group is a set in    *)
(* this model, so the order of group._entities, the order in which the     *)
(* entities entered the group, is an input of the evaluation.              *)
(***************************************************************************)
QueryEnts == UserEnts

MaxCount == 1

\* entityType.getSelfAndSubtypes(): Party is the abstract base type of
\* Customer.  Modelled from the design (section 4.8).
getSelfAndSubtypes(t) == IF t = "Party" THEN <<"Party", "Customer">> ELSE <<t>>

findOrCreateEntityGroups(s, m, entityType) ==
  LET entityTypes == getSelfAndSubtypes(entityType)
      RECURSIVE Groups(_, _)
      Groups(s1, i) ==
        IF i > Len(entityTypes) THEN s1
        ELSE Groups(findOrCreateEntityGroup(s1, m, entityTypes[i]), i + 1)
  IN Groups(s, 1)

\* the delegate of the where predicate of the queries of this model
filterFunc(s, e) == s.rowVer[e] >= 1

\* the comparer of the order-by clause: ascending by id
orderByComparer(s, a, b) == s.id[a] < s.id[b]

\* the function of the select clause: the id
selectFn(s, e) == s.id[e]

\* executeQueryLocallyCore that also returns the deleted entities when the merge
\* strategy of the query options is OverwriteChanges
executeQueryLocallyCore_strategyIncludesDeleted(s, m, query, order) ==
  LET entityTypes == getSelfAndSubtypes(query.entityType)
      includeDeleted == query.includeDeleted = TRUE \/ query.mergeStrategy = OverwriteChanges
      newFilterFunc(e) ==
        /\ includeDeleted \/ s.entityState[e] # Deleted
        /\ IF query.where THEN filterFunc(s, e) ELSE TRUE
      _entities(t) == SelectSeq(order, LAMBDA e : e \in GroupEntities(s, m, t))
      RECURSIVE Concat(_, _)
      Concat(result, i) ==
        IF i > Len(entityTypes) THEN result
        ELSE Concat(result \o SelectSeq(_entities(entityTypes[i]), newFilterFunc), i + 1)
      Sorted(result) ==
        IF query.orderBy THEN SortSeq(result, LAMBDA a, b : orderByComparer(s, a, b))
        ELSE result
      Skipped(result) ==
        IF query.skipCount # <<>> /\ query.skipCount[1] # 0
        THEN SubSeq(result, query.skipCount[1] + 1, Len(result))
        ELSE result
      Taken(result) ==
        IF query.takeCount # <<>> /\ query.takeCount[1] # 0
        THEN SubSeq(result, 1, IF query.takeCount[1] < Len(result)
                               THEN query.takeCount[1] ELSE Len(result))
        ELSE result
      Selected(result) ==
        IF query.select THEN [i \in 1..Len(result) |-> selectFn(s, result[i])] ELSE result
      Return(result) ==
        [findOrCreateEntityGroups(s, m, query.entityType) EXCEPT
           !.result = [results |-> Selected(Taken(Skipped(result))),
                       inlineCount |-> IF query.inlineCountEnabled
                                       THEN <<Len(result)>> ELSE <<>>]]
  IN Return(Sorted(Concat(<<>>, 1)))

executeQueryLocallyCore(s, m, query, order) ==
  LET entityTypes == getSelfAndSubtypes(query.entityType)
      includeDeleted == query.includeDeleted = TRUE
      newFilterFunc(e) ==
        /\ includeDeleted \/ s.entityState[e] # Deleted
        /\ IF query.where THEN filterFunc(s, e) ELSE TRUE
      _entities(t) == SelectSeq(order, LAMBDA e : e \in GroupEntities(s, m, t))
      RECURSIVE Concat(_, _)
      Concat(result, i) ==
        IF i > Len(entityTypes) THEN result
        ELSE Concat(result \o SelectSeq(_entities(entityTypes[i]), newFilterFunc), i + 1)
      Sorted(result) ==
        IF query.orderBy THEN SortSeq(result, LAMBDA a, b : orderByComparer(s, a, b))
        ELSE result
      Skipped(result) ==
        IF query.skipCount # <<>> /\ query.skipCount[1] # 0
        THEN SubSeq(result, query.skipCount[1] + 1, Len(result))
        ELSE result
      Taken(result) ==
        IF query.takeCount # <<>> /\ query.takeCount[1] # 0
        THEN SubSeq(result, 1, IF query.takeCount[1] < Len(result)
                               THEN query.takeCount[1] ELSE Len(result))
        ELSE result
      Selected(result) ==
        IF query.select THEN [i \in 1..Len(result) |-> selectFn(s, result[i])] ELSE result
      Return(result) ==
        [findOrCreateEntityGroups(s, m, query.entityType) EXCEPT
           !.result = [results |-> Selected(Taken(Skipped(result))),
                       inlineCount |-> IF query.inlineCountEnabled
                                       THEN <<Len(result)>> ELSE <<>>]]
  IN Return(Sorted(Concat(<<>>, 1)))

\* the orders in which the entities of a set can stand in an array
Orderings(S) == {f \in [1..Cardinality(S) -> S] : \A e \in S : \E i \in DOMAIN f : f[i] = e}

Counts == {<<>>} \cup {<<n>> : n \in 0..MaxCount}

Queries ==
  [entityType : {"Party"}, where : BOOLEAN, orderBy : BOOLEAN,
   skipCount : {<<>>, <<MaxCount>>}, takeCount : Counts, select : BOOLEAN,
   inlineCountEnabled : {TRUE}, includeDeleted : BOOLEAN,
   mergeStrategy : {OverwriteChanges, PreserveChanges}]

InitQuery ==
  /\ InitEmpty
  /\ created = QueryEnts
  /\ hasAspect = [e \in Ents |-> FALSE]
  /\ id = [e \in Ents |-> IF e = "u1" THEN 3 ELSE IF e = "u2" THEN 1
                          ELSE IF e = "p1" THEN 2 ELSE DefaultKey]
  /\ customerId = [e \in Ents |-> DefaultKey]
  /\ navShape = "biCollection"
  /\ lastOp = InitOp(Null)

QueryAttach(e, state) ==
  /\ MayRun
  /\ entityManager[e] = NoMgr
  /\ Attaches("em1", e, state, Disallowed)

ExecuteQueryLocally(m, query, order) ==
  /\ MayRun
  /\ \E s \in {executeQueryLocallyCore(Cur, m, query, order)} :
       Commit(s, [Op("executeQueryLocally", m, Null) EXCEPT !.query = query,
                                                           !.script = order])

NextQuery ==
  \/ \E e \in QueryEnts, state \in {Unchanged, Deleted} : QueryAttach(e, state)
  \/ \E e \in QueryEnts : entityManager[e] = "em1" /\ SetProperty(e, 1)
  \/ \E query \in Queries, order \in Orderings(CachedEntities(Cur, "em1")) :
       ExecuteQueryLocally("em1", query, order)

SpecQuery == InitQuery /\ [][NextQuery]_vars

(***************************************************************************)
(* Stamping the concurrency property.  The application gives an entity its *)
(* rowVer before it attaches it and leaves the property alone afterwards;  *)
(* the entity is attached in any state and saved, the transport answers,   *)
(* and a failed save is tried again.                                       *)
(***************************************************************************)
MaxStampOps == 5

StampMayRun == opCount < MaxStampOps

\* the application writes rowVer of an entity that is in no manager
StampEdit(e, v) ==
  /\ StampMayRun
  /\ hasAspect[e]
  /\ entityManager[e] = NoMgr
  /\ v # rowVer[e]
  /\ \E s \in {setProperty(Cur, e, v)} : Commit(s, Op("setProperty", NoMgr, e))

NextStamp ==
  \/ \E v \in UserRowVers : StampEdit("u1", v)
  \/ \E state \in AttachedStates :
       StampMayRun /\ entityManager["u1"] = NoMgr /\ Attaches("em1", "u1", state, Disallowed)
  \/ \E entities \in {AllChanges, ListOf({"u1"})} :
       StampMayRun /\ Saves("em1", entities, FALSE, {}, FALSE)
  \/ \E sv \in saves : StampMayRun /\ TransportRejects(sv, {})
  \/ \E sv \in saves, returned \in SUBSET {"u1"} :
       StampMayRun /\ returned \subseteq sv.entitiesToSave /\ TransportResolves(sv, returned)

SpecStamp == Init /\ [][NextStamp]_vars

(***************************************************************************)
(* Saves that fail before the transport is called: two managers, saves of  *)
(* all changes or of a list of one entity that may belong to the other     *)
(* manager or to none, with and without allowConcurrentSaves, invalid      *)
(* entities and an adapter that throws.                                    *)
(***************************************************************************)
NextSaveErr ==
  \/ \E m \in Mgrs, e \in UserEnts, state \in {Added, Modified} :
       entityManager[e] = NoMgr /\ AttachEntity(m, e, state, Disallowed)
  \/ \E entities \in {AllChanges} \cup {ListOf({e}) : e \in UserEnts},
        allow \in BOOLEAN, invalid \in {{}} \cup {{e} : e \in UserEnts},
        adapterThrows \in BOOLEAN :
       /\ ~(invalid # {} /\ adapterThrows)
       /\ SaveChanges("em1", entities, allow, invalid, adapterThrows)
  \/ \E sv \in saves : SaveFail(sv, {})

SpecSaveErr == Init /\ [][NextSaveErr]_vars

(***************************************************************************)
(* Linking with detaches: the entities of InitLink, attached in every      *)
(* order, detached and attached again, and the manager cleared.            *)
(* lastOp.preDetached and                                                  *)
(* lastOp.preAttached are the buffered children found under the key of the *)
(* attaching Customer, lastOp.preOrders its collection before the attach,  *)
(* lastOp.fresh that no other entity was cached under its key.             *)
(***************************************************************************)
\* the children buffered under the key of e in manager m
BufferedFor(m, e) ==
  IF TypeOf(e) = "Customer"
  THEN {c \in OrderEnts : \E tpl \in getTuples(Cur, m, KeyOf(Cur, e)) :
                             \E i \in 1..Len(tpl.children) : tpl.children[i] = c}
  ELSE {}

DetachAttach(e, state, mergeStrategy) ==
  /\ MayRun
  /\ entityManager[e] = NoMgr
  /\ mergeStrategy # Disallowed => StrategyMatters("em1", e, state)
  /\ \E s \in {attachEntity(Cur, "em1", e, state, mergeStrategy)} :
       Commit(s, [Op("attachEntity", "em1", e)
                    EXCEPT !.state = state, !.mergeStrategy = mergeStrategy,
                           !.preDetached = {c \in BufferedFor("em1", e) :
                                              entityState[c] = Detached},
                           !.preAttached = {c \in BufferedFor("em1", e) :
                                              entityState[c] # Detached},
                           !.preOrders = orders[e],
                           !.fresh = ~StrategyMatters("em1", e, state)])

DetachDetach(e) ==
  /\ entityManager[e] = "em1"
  /\ DetachEntity("em1", e)

NextDetach ==
  \/ \E e \in UserEnts \cup OrderEnts, state \in {Unchanged, Added},
        ms \in {Disallowed, OverwriteChanges} : DetachAttach(e, state, ms)
  \/ \E e \in UserEnts \cup OrderEnts : DetachDetach(e)
  \/ Clear("em1")

SpecDetach == InitLink /\ [][NextDetach]_vars

(***************************************************************************)
(* Save responses as the server and the application may make them: one     *)
(* manager, Customers attached as Added or Modified, saves of all changes  *)
(* with and without allowConcurrentSaves, responses that carry a key       *)
(* mapping for an entity type the cache has no group for, before or after  *)
(* the mappings of the Customers, and a success callback that may throw.   *)
(***************************************************************************)
\* the mappings of a type without group a response may carry: one that comes
\* first in the response, or one that comes last
ForeignMappings ==
  {{}, {<<MaxRealKey + 1, 1, "Product">>}, {<<TempKeyOf(MaxTempKeys + 1), 1, "Product">>}}

FixupResolves(sv, returned, foreign, callbackThrows) ==
  /\ MayRun
  /\ sv \in saves
  /\ Cardinality(KeyMappingsOf(Cur, sv)) = Cardinality(TempsSent(sv))
  /\ \E s \in {Settle(saveSuccessOf(Cur, sv, returned, KeyMappingsOf(Cur, sv) \cup foreign,
                                    callbackThrows), sv)} :
       /\ ~s.stuck
       /\ Commit(s, [Op("saveSuccess", sv.mgr, Null) EXCEPT !.entities = sv.entitiesToSave,
                                                            !.returned = returned])

NextFixup ==
  \/ \E e \in UserEnts, state \in {Added, Modified} :
       entityManager[e] = NoMgr /\ AttachEntity("em1", e, state, Disallowed)
  \/ \E allow \in BOOLEAN, invalid \in {{}} \cup {{e} : e \in UserEnts},
        adapterThrows \in BOOLEAN :
       /\ ~(invalid # {} /\ adapterThrows)
       /\ SaveChanges("em1", AllChanges, allow, invalid, adapterThrows)
  \/ \E sv \in saves, returned \in SUBSET UserEnts, foreign \in ForeignMappings,
        callbackThrows \in BOOLEAN :
       /\ returned \subseteq sv.entitiesToSave
       /\ FixupResolves(sv, returned, foreign, callbackThrows)
  \/ \E sv \in saves : SaveFail(sv, {})

SpecFixup == Init /\ [][NextFixup]_vars

(***************************************************************************)
(* Attaches that throw: two managers, Customers that share a key, Orders   *)
(* of which one may have no key, every navigation shape, attaches without  *)
(* merge and detaches, so that an entity may refer to one that is in the   *)
(* other manager or in none.                                               *)
(***************************************************************************)
InitGraph ==
  /\ InitEmpty
  /\ created = UserEnts \cup OrderEnts
  /\ hasAspect = [e \in Ents |-> FALSE]
  /\ id \in {f \in [Ents -> {DefaultKey} \cup RealKeys] :
                /\ f["u1"] = 1 /\ f["u2"] = 1 /\ f["o1"] = 1 /\ f["o2"] \in {DefaultKey, 2}
                /\ \A e \in Ents \ (UserEnts \cup OrderEnts) : f[e] = DefaultKey}
  /\ customerId = [e \in Ents |-> IF e \in OrderEnts THEN 1 ELSE DefaultKey]
  /\ navShape \in NavShapes
  /\ lastOp = InitOp([id |-> id, customerId |-> customerId])

NextGraph ==
  \/ \E m \in Mgrs, e \in UserEnts \cup OrderEnts, state \in {Unchanged, Added} :
       AttachEntity(m, e, state, Disallowed)
  \/ \E m \in Mgrs, e \in UserEnts \cup OrderEnts :
       entityManager[e] = m /\ DetachEntity(m, e)

SpecGraph == InitGraph /\ [][NextGraph]_vars

(***************************************************************************)
(* Properties.                                                             *)
(***************************************************************************)
\* the managers whose groups index entity e
IndexedIn(e) == {m \in Mgrs : e \in CachedEntities(Cur, m)}

\* C1: every entity that is not Detached is what getEntityByKey of its manager
\* returns for its current key, and no two distinct entities attached to one
\* manager have the same key.
C1_IndexedByCurrentKey ==
  /\ \A e \in Ents :
       entityState[e] # Detached =>
         /\ entityManager[e] \in Mgrs
         /\ getEntityByKey(Cur, entityManager[e], TypeOf(e), id[e]) = e
  /\ \A e1, e2 \in Ents :
       (/\ e1 # e2
        /\ entityState[e1] # Detached
        /\ entityState[e2] # Detached
        /\ entityManager[e1] = entityManager[e2]
        /\ TypeOf(e1) = TypeOf(e2)) => id[e1] # id[e2]

\* the post-save key remap has given an attached entity a new key
C1_Witness ==
  /\ lastOp.op = "saveSuccess"
  /\ \E e \in lastOp.entities :
       /\ lastOp.settled.sent[e].hasTempKey
       /\ entityState[e] # Detached
       /\ id[e] # lastOp.settled.sent[e].id
       /\ Cardinality(CachedEntities(Cur, lastOp.mgr)) >= 2

\* C2: with no save in flight, hasChanges() of a manager is true exactly when
\* one of its cached entities is Added, Modified or Deleted.
C2_HasChangesIffChanged ==
  saves = {} =>
    \A m \in Mgrs :
      hasChanges(Cur, m) <=> \E e \in CachedEntities(Cur, m) : entityState[e] \in ChangedStates

\* C3: an entity is Detached exactly when no group indexes it and its aspect
\* references no manager; otherwise its aspect references the one manager that
\* indexes it; and attachEntity on an entity of another manager throws and
\* changes nothing.
C3_SingleOwner ==
  /\ \A e \in Ents :
       IF entityState[e] = Detached
       THEN IndexedIn(e) = {} /\ entityManager[e] = NoMgr
       ELSE IndexedIn(e) = {entityManager[e]}
  /\ (lastOp.op = "attachEntity" /\ lastOp.preManager \notin {NoMgr, lastOp.mgr}) =>
       (lastOp.threw /\ lastOp.changed = {})

\* attachEntity was called for an entity that another manager owns
C3_Witness ==
  /\ lastOp.op = "attachEntity"
  /\ lastOp.preManager \notin {NoMgr, lastOp.mgr}
  /\ entityManager[lastOp.ent] = lastOp.preManager
  /\ entityState[lastOp.ent] # Detached

\* C4: attachEntity for an entity that already belongs to this manager returns
\* that entity, changes nothing and publishes nothing, whatever entity state and
\* merge strategy are passed.
C4_AttachIdempotent ==
  (lastOp.op = "attachEntity" /\ lastOp.preManager = lastOp.mgr) =>
    /\ ~lastOp.threw
    /\ lastOp.ret = lastOp.ent
    /\ lastOp.changed = {}
    /\ lastOp.pubs = <<>>
    /\ entityState[lastOp.ent] = lastOp.preState

\* the second attach passed another entity state and another merge strategy
C4_Witness ==
  /\ lastOp.op = "attachEntity"
  /\ lastOp.preManager = lastOp.mgr
  /\ lastOp.state # lastOp.preState
  /\ lastOp.mergeStrategy = OverwriteChanges

\* C5: detachEntity returns false without throwing when the entity has no
\* aspect or is Detached; it throws when the entity belongs to another manager;
\* otherwise the entity leaves its group, becomes Detached and true is returned.
C5_DetachOutcomes ==
  lastOp.op = "detachEntity" =>
    IF ~lastOp.preHasAspect \/ lastOp.preState = Detached
    THEN ~lastOp.threw /\ lastOp.ret = "false"
    ELSE IF lastOp.preManager # lastOp.mgr
    THEN lastOp.threw
    ELSE /\ ~lastOp.threw
         /\ lastOp.ret = "true"
         /\ entityState[lastOp.ent] = Detached
         /\ IndexedIn(lastOp.ent) = {}

\* C6: an import that meets a cached entity under the incoming key follows the
\* collision table: Disallowed throws, SkipMerge leaves the cached entity as it
\* is, OverwriteChanges gives it the incoming values and state, PreserveChanges
\* does so only when the cached entity was Unchanged.
C6_ImportCollisionTable ==
  (lastOp.op = "importEntities" /\ lastOp.ent # Null) =>
    LET target == lastOp.ent
        kept == /\ entityState[target] = lastOp.preState
                /\ rowVer[target] = lastOp.preValue
        overwritten == /\ entityState[target] = lastOp.state
                       /\ rowVer[target] = lastOp.value
    IN CASE lastOp.mergeStrategy = Disallowed -> lastOp.threw /\ kept
         [] lastOp.mergeStrategy = SkipMerge -> ~lastOp.threw /\ kept
         [] lastOp.mergeStrategy = OverwriteChanges -> ~lastOp.threw /\ overwritten
         [] lastOp.mergeStrategy = PreserveChanges ->
              /\ ~lastOp.threw
              /\ IF lastOp.preState = Unchanged THEN overwritten ELSE kept

\* PreserveChanges met a cached changed entity and an incoming entity that
\* differs from it in state and value
C6_Witness ==
  /\ lastOp.op = "importEntities"
  /\ lastOp.ent # Null
  /\ lastOp.mergeStrategy = PreserveChanges
  /\ lastOp.preState = Modified
  /\ lastOp.state # Modified
  /\ lastOp.value # lastOp.preValue

\* C7: saveChanges with allowConcurrentSaves = false and an entity to save that
\* is being saved is rejected at once: the adapter is not called, the error
\* goes to the errorCallback and rejects the promise, and nothing is changed.
C7_ConcurrentSaveRejected ==
  (/\ lastOp.op = "saveChanges"
   /\ ~lastOp.threw
   /\ ~lastOp.allowConcurrentSaves
   /\ lastOp.entities \cap lastOp.preBeingSaved # {}) =>
    /\ lastOp.error = "ConcurrencyError"
    /\ ~lastOp.adapterCalled
    /\ lastOp.callbacks = <<"error">>
    /\ lastOp.promise = "rejected"
    /\ lastOp.changed = {}

\* a save was rejected while the save it overlaps is still in flight
C7_Witness ==
  /\ lastOp.op = "saveChanges"
  /\ lastOp.error = "ConcurrencyError"
  /\ \E sv \in saves : sv.entitiesToSave \cap lastOp.entities # {}

\* C8: when every save runs with allowConcurrentSaves = false, no two
\* dispatched, unsettled saves have an entity in common.
C8_NoOverlappingSaves ==
  \A sv1, sv2 \in saves : sv1 # sv2 => sv1.entitiesToSave \cap sv2.entitiesToSave = {}

\* two saves are in flight at once
C8_Witness ==
  /\ Cardinality(saves) = 2
  /\ \A sv \in saves : sv.entitiesToSave # {} /\ ~sv.allowConcurrentSaves

\* C9: when the transport rejects a save right after saveChanges was called,
\* every cached entity has the state and the values it had before the call and
\* hasChanges() is what it was.
C9_FailedSaveLeavesCache ==
  (lastOp.op = "saveFail" /\ lastOp.settled.at + 1 = opCount) =>
    LET pre == lastOp.settled.pre
    IN /\ CachedEntities(Cur, lastOp.mgr) = pre.cached
       /\ \A e \in pre.cached :
            /\ entityState[e] = pre.entityState[e]
            /\ rowVer[e] = pre.rowVer[e]
            /\ id[e] = pre.id[e]
       /\ hasChanges(Cur, lastOp.mgr) = pre.hasChanges

\* C10: when client validation fails for an entity to save, the save aborts
\* before dispatch: the adapter is not called, no entity is marked, no
\* concurrency property is bumped, no state or value changes, and the
\* aggregated error goes to the errorCallback and rejects the promise.
C10_ValidationGateAborts ==
  (/\ lastOp.op = "saveChanges"
   /\ lastOp.invalid # {}
   /\ lastOp.entities \cap lastOp.preBeingSaved = {}) =>
    /\ lastOp.error = "ClientValidationError"
    /\ ~lastOp.adapterCalled
    /\ lastOp.callbacks = <<"error">>
    /\ lastOp.promise = "rejected"
    /\ lastOp.changed \subseteq {"validationErrors"}
    /\ \A e \in lastOp.invalid : "client" \in validationErrors[e]

\* validation failed for a Modified entity whose concurrency property a
\* dispatched save would have bumped
C10_Witness ==
  /\ lastOp.op = "saveChanges"
  /\ lastOp.error = "ClientValidationError"
  /\ \E e \in lastOp.invalid : entityState[e] = Modified /\ ~isBeingSaved[e]

C12_NoListSavesAllChanges ==
  (/\ lastOp.op = "saveChanges"
   /\ ~lastOp.threw
   /\ lastOp.allChanges \/ lastOp.entities = {}
   /\ lastOp.error \notin {"ConcurrencyError", "ClientValidationError"}
   /\ getChanges(Cur, lastOp.mgr) # {}) =>
    /\ lastOp.adapterCalled
    /\ lastOp.promise = "pending" =>
         \E sv \in saves : /\ sv.id = lastOp.saveId
                           /\ sv.entitiesToSave = getChanges(Cur, lastOp.mgr)

\* C13: a dispatched save settles, and when a save has settled (success,
\* rejection by the transport, or an exception of the adapter before it went
\* asynchronous) with no other save in flight, no entity it targeted is marked
\* as being saved.
C13_SaveSettlesUnmarked ==
  /\ \A i \in 1..MaxInFlight :
       (\E sv \in saves : sv.id = i) ~> ~(\E sv \in saves : sv.id = i)
  /\ []((/\ \/ lastOp.op \in {"saveSuccess", "saveFail"}
            \/ (lastOp.op = "saveChanges" /\ lastOp.error = "AdapterError")
         /\ saves = {}) =>
          \A e \in lastOp.entities : ~isBeingSaved[e])

\* the transport rejected a save of a cached entity and nothing is in flight
C13_Witness ==
  /\ lastOp.op = "saveFail"
  /\ saves = {}
  /\ \E e \in lastOp.entities : entityState[e] # Detached

\* an Order is wired to a Customer through every navigation property declared
WiredTo(o, c) ==
  /\ HasChildToParentNp(Cur) => customer[o] = c
  /\ HasParentToChildNp(Cur) => Contains(orders[c], o)

C15_KeysRemappedBeforeObserved ==
  (/\ lastOp.op = "saveSuccess" /\ lastOp.promise = "resolved" /\ lastOp.returned # {}
   /\ ~ParentToChildIsScalar(Cur)) =>
    /\ lastOp.steps[1] = "fixupKeys"
    /\ ~lastOp.sawStaleFk

\* C16: when the success callback of a save has run, every key mapping of the
\* response has been applied, whatever entities the response carried: the
\* Customer sent under the temp value has the real value as its key and is
\* indexed under it, nothing is indexed under the temp value, and no cached
\* Order's foreign key holds the temp value.
C16_EveryKeyMappingApplied ==
  (/\ lastOp.op = "saveSuccess" /\ lastOp.promise = "resolved"
   /\ ~ParentToChildIsScalar(Cur)) =>
    \A km \in lastOp.keyMappings :
      /\ getEntityByKey(Cur, lastOp.mgr, "Customer", km[1]) = Null
      /\ \A c \in lastOp.entities :
           (lastOp.settled.sent[c].id = km[1] /\ entityManager[c] = lastOp.mgr) =>
             /\ id[c] = km[2]
             /\ getEntityByKey(Cur, lastOp.mgr, "Customer", km[2]) = c
      /\ \A o \in GroupEntities(Cur, lastOp.mgr, "Order") : customerId[o] # km[1]

\* the program state before the first attach of the script
StartOf(start) ==
  [Cur EXCEPT !.hasAspect = [e \in Ents |-> FALSE],
              !.entityManager = [e \in Ents |-> NoMgr],
              !.entityState = [e \in Ents |-> Detached],
              !.id = start.id,
              !.rowVer = [e \in Ents |-> 0],
              !.originalValues = [e \in Ents |-> NoValues],
              !.hasTempKey = [e \in Ents |-> FALSE],
              !.validationErrors = [e \in Ents |-> {}],
              !._entityGroupMap = [m \in Mgrs |-> NoValues],
              !._hasChanges = [m \in Mgrs |-> FALSE],
              !._hasChangesAction = [m \in Mgrs |-> Null],
              !.keyGenerator = [m \in Mgrs |-> {}],
              !.customerId = start.customerId,
              !.customer = [e \in Ents |-> Null],
              !.orders = [e \in Ents |-> <<>>],
              !._unattachedChildrenMap = [m \in Mgrs |-> {}],
              !.clock = 0]

\* the attaches of a script made one after the other
RECURSIVE Replay(_, _)
Replay(s, script) ==
  IF script = <<>> THEN s
  ELSE LET a == Head(script)
           s1 == attachEntity(s, "em1", a[1], a[2], a[3])
       IN Replay([s1 EXCEPT !.pubs = <<>>, !.threw = FALSE, !.ret = Null,
                            !.error = Null, !.seen = <<>>, !.inProcess = {}],
                 Tail(script))

\* the script with the attaches at positions i and j exchanged
Swap(script, i, j) ==
  [k \in 1..Len(script) |->
     IF k = i THEN script[j] ELSE IF k = j THEN script[i] ELSE script[k]]

\* the navigation properties of s hold what those of the current state hold
SameWiring(s) ==
  /\ s.customer = customer
  /\ \A p \in UserEnts, c \in OrderEnts : Count(s.orders[p], c) = Count(orders[p], c)

\* C17: for a Customer P and an Order C whose foreign key is P's key, both
\* attached by the script (one Order per Customer where Customer.orders is
\* scalar): C is wired to P, and the script with the attach of P and the
\* attach of C exchanged, when it leaves the same entities cached in the same
\* states under the same keys, ends in the same wiring, for each navigation
\* shape and whatever other attaches the script makes.
C17_AttachOrderConverges ==
  LET script == lastOp.script
      start == lastOp.start
  IN (lastOp.op = "attachEntity" /\ script # <<>>
      /\ (ParentToChildIsScalar(Cur) => start.customerId["o1"] # start.customerId["o2"])) =>
       \A i, j \in 1..Len(script) :
         LET P == script[i][1]
             C == script[j][1]
         IN (/\ P \in UserEnts /\ C \in OrderEnts
             /\ start.customerId[C] = start.id[P]
             /\ entityManager[P] = "em1" /\ entityManager[C] = "em1") =>
              /\ customerId[C] = id[P] => WiredTo(C, P)
              /\ LET r == Replay(StartOf(start), Swap(script, i, j))
                 IN (/\ r.entityManager = entityManager
                     /\ r.entityState = entityState
                     /\ r.id = id /\ r.customerId = customerId) => SameWiring(r)

\* the temp keys an operation made the generators hand out are pairwise
\* different
MintedDistinct(minted) ==
  \A i, j \in 1..Len(minted) : i # j => minted[i] # minted[j]

\* C18 as stated: over the whole life of a manager, across attach as Added,
\* generateTempKeyValue, importEntities and clear, no temp key value is handed
\* out twice by the manager.
C18_TempKeysDistinctForLife ==
  \A m \in Mgrs, k \in TempKeys : handedOut[m][k] <= 1

\* C18 amended: a temp key an operation makes the generator of a manager hand
\* out has not been handed out by that generator before, and is in the
\* generator's record afterwards; the generator is the one the manager got
\* when it was constructed or last cleared.
C18_TempKeysDistinctPerGenerator ==
  [][LET minted == lastOp'.minted
     IN /\ MintedDistinct(minted)
        /\ \A i \in 1..Len(minted) :
             /\ minted[i][2] \notin keyGenerator[minted[i][1]]
             /\ minted[i][2] \in keyGenerator'[minted[i][1]]]_vars

\* the manager was cleared after handing out a temp key and has handed out
\* two temp keys since, the second one by importEntities for a bundle whose
\* temp key the generator had already handed out
C18_Witness ==
  /\ lastOp.op = "importEntities"
  /\ Len(lastOp.minted) = 1
  /\ lastOp.bundle.tempKeys # <<>>
  /\ lastOp.bundle.tempKeys[1][2] \in lastOp.preKeyGenerator
  /\ Cardinality(keyGenerator["em1"]) = 2
  /\ handedOut["em1"][TempKeyOf(1)] = 2

\* C19: after an import that did not throw, for every temp key the bundle
\* lists: the destination's generator minted a key for it that is not the
\* bundle's value; every Added raw entity carrying the temp key was attached
\* as a new entity of the destination under the minted key with hasTempKey
\* set; and every imported Order whose raw foreign key held the temp key of a
\* Customer holds the minted key.
C19_ImportMintsAndRepoints ==
  (lastOp.op = "importEntities" /\ ~lastOp.threw) =>
    \A i \in 1..Len(lastOp.bundle.tempKeys) :
      LET old == lastOp.bundle.tempKeys[i]
          new == getMappedKey(lastOp.tempKeyMap, old[1], old[2])
      IN /\ new # {}
         /\ \A k \in new :
              /\ k # old[2]
              /\ \E j \in 1..Len(lastOp.minted) : lastOp.minted[j] = <<lastOp.mgr, k>>
              /\ \A r \in 1..Len(lastOp.bundle.entities) :
                   LET raw == lastOp.bundle.entities[r]
                       e == lastOp.imported[r]
                   IN /\ (raw.type = old[1] /\ raw.id = old[2] /\ raw.entityState = Added) =>
                          /\ id[e] = k /\ hasTempKey[e]
                          /\ entityManager[e] = lastOp.mgr
                          /\ e \notin lastOp.preCached
                      /\ (raw.type = "Order" /\ old[1] = "Customer"
                           /\ raw.customerId = old[2]) => customerId[e] = k

\* the (type, key, state, property values) tuples of the entities a manager holds
Tuples(m) ==
  {[type |-> TypeOf(e), id |-> id[e], entityState |-> entityState[e],
    rowVer |-> rowVer[e], customerId |-> customerId[e]] : e \in CachedEntities(Cur, m)}

\* C20: when em2 was fresh and has imported what em1 exported, the import did
\* not throw, em2 holds exactly the (type, key, state, property values) tuples
\* em1 holds, and every Order of em2 that is not Deleted and whose foreign key
\* is the key of a Customer of em2 is wired to that Customer.
C20_ExportImportRoundTrip ==
  (lastOp.op = "importEntities" /\ lastOp.mgr = "em2" /\ lastOp.fresh) =>
    /\ ~lastOp.threw
    /\ Tuples("em2") = Tuples("em1")
    /\ \A o \in GroupEntities(Cur, "em2", "Order"), c \in GroupEntities(Cur, "em2", "Customer") :
         (entityState[o] # Deleted /\ customerId[o] = id[c]) => WiredTo(o, c)

\* a fresh manager has imported an Unchanged Order whose foreign key is the temp
\* key of an Added Customer of the same bundle, and the two are wired
C20_Witness ==
  /\ lastOp.op = "importEntities" /\ lastOp.mgr = "em2" /\ lastOp.fresh
  /\ navShape = "biCollection"
  /\ \E o \in GroupEntities(Cur, "em2", "Order"), c \in GroupEntities(Cur, "em2", "Customer") :
       /\ entityState[o] = Unchanged
       /\ entityState[c] = Added /\ hasTempKey[c]
       /\ customerId[o] = id[c]
       /\ customer[o] = c /\ Contains(orders[c], o)

\* the key properties that held the default value when the operation began
PreDefaults == {i \in 1..Len(lastOp.preKey) : lastOp.preKey[i] = DefaultKey}

\* the operation was attachEntity, as Added, of an entity that was in no
\* manager and had a key property holding the default value
AddedWithDefaults ==
  /\ lastOp.op = "attachEntity"
  /\ lastOp.state = Added
  /\ lastOp.preManager = NoMgr
  /\ PreDefaults # {}

\* C21 (as the code has it): attachEntity as Added of an entity with a key
\* property at its default value generates a temporary key and sets hasTempKey
\* when the type generates its keys; otherwise it fails when every key
\* property holds the default, and attaches the entity with its key as it is
\* when only some do.
C21_KeyCheckByDefaultParts ==
  AddedWithDefaults =>
    LET e == lastOp.ent
    IN IF AutoGeneratedKey(TypeOf(e))
       THEN /\ ~lastOp.threw
            /\ hasTempKey[e] /\ IsTempKey(id[e])
            /\ entityManager[e] = lastOp.mgr /\ entityState[e] = Added
       ELSE IF Cardinality(PreDefaults) = Len(lastOp.preKey)
       THEN lastOp.threw /\ entityManager[e] = NoMgr
       ELSE /\ ~lastOp.threw
            /\ entityManager[e] = lastOp.mgr /\ entityState[e] = Added
            /\ ~hasTempKey[e] /\ KeyValues(Cur, e) = lastOp.preKey

\* C21 (as stated): without generated keys the attach fails when the key is
\* only partially set and is allowed when the key is fully default.
C21_PartialKeyFails ==
  (AddedWithDefaults /\ ~AutoGeneratedKey(TypeOf(lastOp.ent))) =>
    IF Cardinality(PreDefaults) = Len(lastOp.preKey)
    THEN ~lastOp.threw /\ entityManager[lastOp.ent] = lastOp.mgr
    ELSE lastOp.threw /\ entityManager[lastOp.ent] = NoMgr

\* an OrderDetail of which one key property was set has been attached as Added
C21_Witness ==
  /\ AddedWithDefaults
  /\ TypeOf(lastOp.ent) = "OrderDetail"
  /\ Cardinality(PreDefaults) = 1
  /\ entityState[lastOp.ent] = Added

\* C22: a successful attachEntity of an entity that was in no manager publishes
\* exactly one Attach notification carrying the instance it returns, and
\* publishes an EntityStateChange notification for that instance, with the
\* manager marked as having changes, exactly when the state that instance ends
\* in is not Unchanged, whatever the merge strategy.
C22_AttachNotifications ==
  (lastOp.op = "attachEntity" /\ lastOp.preManager = NoMgr /\ ~lastOp.threw) =>
    LET r == lastOp.ret
    IN /\ Count(lastOp.pubs, <<"Attach", r>>) = 1
       /\ Contains(lastOp.pubs, <<"EntityStateChange", r>>) <=> entityState[r] # Unchanged
       /\ entityState[r] # Unchanged => _hasChanges[lastOp.mgr]

\* C23: the notifications queued during a bulk operation reach the
\* subscribers in the order they were queued, each once, none before the body
\* that queued it has finished, and the queue is not active afterwards; also
\* when another bulk operation starts inside the body and when a subscriber
\* queues a notification during the flush.
C23_DeferredPublication ==
  lastOp.op \in BulkOps =>
    LET flushed == SelectSeq(lastOp.delivered, LAMBDA d : d.queued)
    IN /\ [i \in 1..Len(flushed) |-> flushed[i].note] = lastOp.enqueued
       /\ \A i \in 1..Len(flushed) : ~flushed[i].early
       /\ ~_pendingPubs[lastOp.mgr].active

\* C23, reduced to an operation whose body starts no other operation and
\* whose subscribers queue nothing
C23_PlainBulk ==
  (/\ lastOp.op \in BulkOps
   /\ ~lastOp.react
   /\ \A i \in 1..Len(lastOp.script) : lastOp.script[i].k # "run") =>
    LET flushed == SelectSeq(lastOp.delivered, LAMBDA d : d.queued)
    IN /\ [i \in 1..Len(flushed) |-> flushed[i].note] = lastOp.enqueued
       /\ \A i \in 1..Len(flushed) : ~flushed[i].early
       /\ ~_pendingPubs[lastOp.mgr].active

QueryE(q) ==
  SelectSeq(lastOp.script,
            LAMBDA e : \E i \in 1..Len(getSelfAndSubtypes(q.entityType)) :
                         TypeOf(e) = getSelfAndSubtypes(q.entityType)[i])

QueryFiltered(q) ==
  SelectSeq(QueryE(q), LAMBDA e : /\ q.includeDeleted \/ entityState[e] # Deleted
                                  /\ q.where => rowVer[e] >= 1)

QuerySorted(q) ==
  IF q.orderBy THEN SortSeq(QueryFiltered(q), LAMBDA a, b : id[a] < id[b])
  ELSE QueryFiltered(q)

QuerySkipped(q) ==
  IF q.skipCount = <<>> THEN QuerySorted(q)
  ELSE SubSeq(QuerySorted(q), q.skipCount[1] + 1, Len(QuerySorted(q)))

QueryTaken(q) ==
  IF q.takeCount = <<>> THEN QuerySkipped(q)
  ELSE SubSeq(QuerySkipped(q), 1, IF q.takeCount[1] < Len(QuerySkipped(q))
                                  THEN q.takeCount[1] ELSE Len(QuerySkipped(q)))

QueryProjected(q) ==
  IF q.select THEN [i \in 1..Len(QueryTaken(q)) |-> id[QueryTaken(q)[i]]] ELSE QueryTaken(q)

\* C25: executeQueryLocally returns project(take(skip(sort(filter(E))))) over
\* the cached entities of the target type and its subtypes: at most takeCount
\* elements for every take count, 0 included, and inlineCount is the number of
\* entities after the filter and before skip and take.
C25_LocalQueryPipeline ==
  lastOp.op = "executeQueryLocally" =>
    LET q == lastOp.query
    IN /\ lastOp.result.results = QueryProjected(q)
       /\ q.takeCount # <<>> => Len(lastOp.result.results) <= q.takeCount[1]
       /\ lastOp.result.inlineCount = <<Len(QueryFiltered(q))>>

\* C25, for the queries whose take count is not 0
C25_TakeNotZero ==
  (lastOp.op = "executeQueryLocally" /\ lastOp.query.takeCount # <<0>>) =>
    LET q == lastOp.query
    IN /\ lastOp.result.results = QueryProjected(q)
       /\ q.takeCount # <<>> => Len(lastOp.result.results) <= q.takeCount[1]
       /\ lastOp.result.inlineCount = <<Len(QueryFiltered(q))>>

\* the cached entities in state Deleted that the where predicate of the last
\* query accepts
DeletedMatches ==
  {e \in CachedEntities(Cur, lastOp.mgr) :
     entityState[e] = Deleted /\ (lastOp.query.where => rowVer[e] >= 1)}

\* the last operation was a local query without skip, take and projection
WholeQuery ==
  /\ lastOp.op = "executeQueryLocally"
  /\ lastOp.query.skipCount = <<>>
  /\ lastOp.query.takeCount = <<>>
  /\ ~lastOp.query.select

\* C26: a local query returns a cached Deleted entity that matches the
\* predicate exactly when the query options include deleted entities; the
\* merge strategy of the query options has no part in it.
C26_DeletedByOption ==
  WholeQuery =>
    \A e \in DeletedMatches :
      Contains(lastOp.result.results, e) <=> lastOp.query.includeDeleted

\* C26 as stated: Deleted entities are also returned when the effective merge
\* strategy is OverwriteChanges
C26_DeletedByOptionOrStrategy ==
  WholeQuery =>
    \A e \in DeletedMatches :
      Contains(lastOp.result.results, e) <=>
        (lastOp.query.includeDeleted \/ lastOp.query.mergeStrategy = OverwriteChanges)

\* a query under OverwriteChanges that does not include deleted entities has
\* left out a Deleted entity and returned another one
C26_Witness ==
  /\ WholeQuery
  /\ lastOp.query.mergeStrategy = OverwriteChanges
  /\ ~lastOp.query.includeDeleted
  /\ DeletedMatches # {}
  /\ lastOp.result.results # <<>>

\* the save that the last saveChanges call has dispatched
Dispatched == {sv \in saves : lastOp.op = "saveChanges" /\ lastOp.promise = "pending"
                              /\ sv.id = lastOp.saveId}

\* C27: when a save is dispatched, the numeric concurrency property of every
\* Modified entity to save is 1 above its original value, on the first attempt
\* and on a retry after a failed save alike and for every original value, 0
\* included; the property of an Added, Deleted or Unchanged entity is as it was
\* before the call.
C27_ConcurrencyStamp ==
  \A sv \in Dispatched : \A e \in sv.entitiesToSave :
    IF sv.pre.entityState[e] = Modified
    THEN /\ "rowVer" \in DOMAIN originalValues[e]
         /\ rowVer[e] = originalValues[e]["rowVer"] + 1
    ELSE rowVer[e] = sv.pre.rowVer[e]

\* C27, for the entities whose original value is not 0
C27_OriginalNotZero ==
  \A sv \in Dispatched : \A e \in sv.entitiesToSave :
    IF sv.pre.entityState[e] = Modified
    THEN /\ "rowVer" \in DOMAIN originalValues[e]
         /\ originalValues[e]["rowVer"] # 0 => rowVer[e] = originalValues[e]["rowVer"] + 1
    ELSE rowVer[e] = sv.pre.rowVer[e]

\* the last saveChanges call failed before the transport call went
\* asynchronous
FailedBeforeTransport ==
  lastOp.op = "saveChanges" /\ (lastOp.threw \/ lastOp.error # Null)

\* C28: every saveChanges failure found before the transport call goes
\* asynchronous reaches the caller through the errorCallback and through the
\* rejection of the returned promise.
C28_FailureOnBothChannels ==
  FailedBeforeTransport =>
    /\ lastOp.callbacks = <<"error">>
    /\ lastOp.promise = "rejected"

\* C28, for the failures other than an entity that is not in the manager
C28_CaughtFailures ==
  (FailedBeforeTransport /\ lastOp.error # "NotInThisManager") =>
    /\ lastOp.callbacks = <<"error">>
    /\ lastOp.promise = "rejected"
    /\ ~lastOp.threw

\* what a successful save leaves of a targeted entity: one sent as Deleted is
\* in no manager; one sent as Added or Modified is Unchanged and holds the
\* values of the response, which are the values that were sent
MergedFromResponse(e) ==
  IF lastOp.settled.sent[e].entityState = Deleted
  THEN entityManager[e] = NoMgr
  ELSE /\ entityState[e] = Unchanged
       /\ rowVer[e] = lastOp.settled.sent[e].rowVer

AttachedParent ==
  /\ lastOp.op = "attachEntity"
  /\ ~lastOp.threw
  /\ lastOp.preManager = NoMgr
  /\ lastOp.ret # Null
  /\ TypeOf(lastOp.ret) = "Customer"
  /\ entityManager[lastOp.ret] = lastOp.mgr

\* C30: when the linking of an attaching entity is over, the buffer of
\* unattached children holds no tuple under the key of that entity, whatever
\* the navigation shape of the tuples it drained.
C30_BufferDrained ==
  AttachedParent => getTuples(Cur, lastOp.mgr, KeyOf(Cur, lastOp.ret)) = {}

\* C30, for the shapes in which the child declares the navigation property
C30_ChildToParentDrained ==
  (AttachedParent /\ navShape # "uniParent") =>
    getTuples(Cur, lastOp.mgr, KeyOf(Cur, lastOp.ret)) = {}

\* the last operation attached a Customer that was in no manager, under a key
\* that was not cached, while a child buffered under that key had been
\* detached since
ParentOverDetached ==
  /\ lastOp.op = "attachEntity"
  /\ lastOp.preManager = NoMgr
  /\ lastOp.fresh
  /\ TypeOf(lastOp.ent) = "Customer"
  /\ lastOp.preDetached # {}

\* child c is wired to parent p
Wired(c, p) ==
  \/ customer[c] = p
  \/ \E i \in 1..Len(orders[p]) : orders[p][i] = c

\* the attach of the parent went through and wired the buffered children that
\* are still attached, and none of the detached ones
DetachedIgnored ==
  /\ ~lastOp.threw
  /\ lastOp.ret = lastOp.ent =>
       /\ \A c \in lastOp.preAttached : Wired(c, lastOp.ent)
       /\ \A c \in lastOp.preDetached :
            /\ entityState[c] = Detached
            /\ customer[c] # lastOp.ent
            /\ \A i \in 1..Len(orders[lastOp.ent]) :
                 orders[lastOp.ent][i] = c => i <= Len(lastOp.preOrders)

\* C31: when a parent attaches, the children buffered under its key that have
\* been detached since are ignored: the attach does not throw and wires only
\* the children still attached, also when every buffered child of a tuple is
\* detached, in every navigation shape.
C31_DetachedChildrenIgnored ==
  ParentOverDetached => DetachedIgnored

\* C31, leaving out the one-to-one shape with every buffered child detached
C31_IgnoredWhenOneIsLeft ==
  (ParentOverDetached /\ ~(navShape = "biScalar" /\ lastOp.preAttached = {})) =>
    DetachedIgnored

\* C31: the attach of the parent threw over a tuple of detached children
C31_ThrewOverDetached ==
  ParentOverDetached /\ lastOp.threw /\ lastOp.error = "TypeError"

\* the last operation published an EntityStateChange for entity e
StateChangePublished(e) ==
  \E i \in 1..Len(lastOp.pubs) : lastOp.pubs[i] = <<"EntityStateChange", e>>

\* the operations that merge under the loading scope
LoadingOps == {"saveSuccess", "importEntities"}

\* a step of one of the operations of ops moved cached entity e from one
\* entity state to another
StateMoved(e, ops) ==
  /\ lastOp'.op \in ops
  /\ entityState[e] # Detached
  /\ entityState'[e] # Detached
  /\ entityState'[e] # entityState[e]

\* C32: every entity whose entity state changes while the manager is loading
\* (the merge of a save response, an import) has an EntityStateChange
\* published for it by the time the operation is over.
C32_StateChangeNotified ==
  [][\A e \in Ents : StateMoved(e, LoadingOps) => StateChangePublished(e)']_vars

\* C32, outside the loading scope: a property write, acceptChanges and
\* rejectChanges publish the EntityStateChange of the entity they move
C32_NotifiedOutsideLoading ==
  [][\A e \in Ents : StateMoved(e, {"setProperty", "acceptChanges", "rejectChanges"})
                       => StateChangePublished(e)']_vars

\* C32: the merge of a save response made an entity Unchanged and published no
\* EntityStateChange for it
C32_MergedUnnotified ==
  /\ lastOp.op = "saveSuccess"
  /\ \E e \in lastOp.returned :
       /\ lastOp.settled.sent[e].entityState \in {Added, Modified}
       /\ entityState[e] = Unchanged
       /\ ~StateChangePublished(e)

\* entity e is Detached, in no manager, and no lookup by key in the manager
\* of the last operation finds it
Gone(e) ==
  /\ entityState[e] = Detached
  /\ entityManager[e] = NoMgr
  /\ e \notin CachedEntities(Cur, lastOp.mgr)
  /\ \A k \in {DefaultKey} \cup RealKeys \cup TempKeys :
       GroupFindEntityByKey(Cur, lastOp.mgr, TypeOf(e), k) # e

\* the manager of the last operation is left with an empty buffer and
\* without changes
Emptied ==
  /\ _unattachedChildrenMap[lastOp.mgr] = {}
  /\ ~hasChanges(Cur, lastOp.mgr)

\* the Clear notifications the last operation published
ClearPubs == {i \in 1..Len(lastOp.pubs) : lastOp.pubs[i][1] = "Clear"}

ListWithDetached ==
  /\ lastOp.op = "saveChanges"
  /\ ~lastOp.allChanges
  /\ \E e \in lastOp.entities : entityState[e] = Detached

\* C34: saveChanges with an explicit list leaves out the entities of the list
\* that are Detached without raising an error; when the whole list is Detached
\* the call gives the no-op result and does not call the transport.
C34_DetachedLeftOut ==
  ListWithDetached =>
    /\ ~lastOp.threw
    /\ (\A e \in lastOp.entities : entityState[e] = Detached) =>
         /\ lastOp.promise = "resolved"
         /\ lastOp.callbacks = <<"success">>
         /\ ~lastOp.adapterCalled

\* C34: saveChanges threw synchronously over a Detached entity of its list
C34_DetachedThrows ==
  /\ ListWithDetached
  /\ lastOp.threw
  /\ lastOp.error = "NotInThisManager"
  /\ lastOp.callbacks = <<>>

\* how many Attach notifications the last operation published for entity x
AttachCount(x) ==
  Cardinality({i \in 1..Len(lastOp.pubs) : lastOp.pubs[i] = <<"Attach", x>>})

RECURSIVE Closure(_, _)
\* what is reached from the entities of S in at most n steps along the
\* navigation properties
Closure(S, n) ==
  IF n = 0 THEN S
  ELSE Closure(S \cup UNION {RelatedEntities(Cur, x) : x \in S}, n - 1)

\* the entities reachable from e along the navigation properties
Reachable(e) == Closure({e}, Cardinality(Ents))

RECURSIVE Walk(_, _)
\* what is reached from the entities of S in at most n steps along the
\* navigation properties of the entities the last operation attached
Walk(S, n) ==
  IF n = 0 THEN S
  ELSE Walk(S \cup UNION {RelatedEntities(Cur, x) : x \in {y \in S : AttachCount(y) = 1}},
            n - 1)

\* the entities the attach of e walks to: an entity that is in the manager
\* already is returned as it is and its navigation properties are not followed
Walked(e) == Walk({e}, Cardinality(Ents))

\* no entity is attached twice by the last attachEntity and none is left
\* marked as in process; when the call returned for an entity that was in no
\* manager, with no merge allowed, the entities of reached are in the manager
\* and those the call attached are in the entity state it was given
AttachedOnce(reached) ==
  lastOp.op = "attachEntity" =>
    /\ lastOp.inProcess = {}
    /\ \A x \in Ents : AttachCount(x) <= 1
    /\ (~lastOp.threw /\ lastOp.preManager = NoMgr /\ lastOp.mergeStrategy = Disallowed) =>
         \A r \in reached :
           /\ entityManager[r] = lastOp.mgr
           /\ AttachCount(r) = 1 => entityState[r] = lastOp.state

FixupFailed ==
  /\ lastOp.op = "saveSuccess"
  /\ lastOp.error = "KeyFixupError"
  /\ \E km \in lastOp.keyMappings :
       TypeOfMapping(km) \notin DOMAIN _entityGroupMap[lastOp.mgr]

\* the entities that were sent under the temp key of mapping km and hold its
\* real key now
Remapped(km) ==
  {e \in lastOp.settled.entitiesToSave :
     /\ lastOp.settled.sent[e].hasTempKey
     /\ lastOp.settled.sent[e].id = km[1]
     /\ id[e] = km[2]}

\* C36: when a key mapping of a save response cannot be applied because it
\* names an entity type that has no group, no mapping of that response is left
\* applied and the manager is not left in key-fixup mode.
C36_KeyFixupAtomic ==
  FixupFailed =>
    /\ \A km \in lastOp.keyMappings : Remapped(km) = {}
    /\ ~_inKeyFixup[lastOp.mgr]

\* C36: a response was left half applied, with the manager in key-fixup mode
C36_HalfApplied ==
  /\ FixupFailed
  /\ \E km \in lastOp.keyMappings : Remapped(km) # {}
  /\ _inKeyFixup[lastOp.mgr]

\* one callback has been called, once, and it is the one that goes with the
\* outcome of the promise
OneCallback ==
  \/ lastOp.promise = "resolved" /\ lastOp.callbacks = <<"success">>
  \/ lastOp.promise = "rejected" /\ lastOp.callbacks = <<"error">>

\* C37: a saveChanges call that is over has called exactly one of the success
\* callback and the error callback, once, and that callback matches the
\* outcome of the returned promise, also when the post-save processing or the
\* success callback throws; until the transport settles the call neither has
\* been called.
C37_ExactlyOneCallback ==
  /\ lastOp.op = "saveChanges" =>
       \/ OneCallback
       \/ lastOp.promise = "pending" /\ lastOp.callbacks = <<>>
  /\ lastOp.op \in {"saveSuccess", "saveFail"} => OneCallback

\* C37, for the saves whose success callback returns
C37_WhenCallbackReturns ==
  /\ lastOp.op = "saveChanges" =>
       \/ OneCallback
       \/ lastOp.promise = "pending" /\ lastOp.callbacks = <<>>
  /\ (lastOp.op \in {"saveSuccess", "saveFail"} /\ lastOp.error # "CallbackError") =>
       OneCallback

\* C37: the success callback threw and the error callback was called after it
C37_BothCallbacks ==
  /\ lastOp.op = "saveSuccess"
  /\ lastOp.callbacks = <<"success", "error">>
  /\ lastOp.promise = "rejected"

\* the last operation was an attachEntity that threw: the key check failed,
\* the key is held by another entity and no merge is allowed, or a related
\* entity belongs to another manager
AttachThrew ==
  /\ lastOp.op = "attachEntity"
  /\ lastOp.threw
  /\ lastOp.error = Null

\* C38: when attachEntity throws, the cache holds the entities it held before
\* the call, the entity passed in is still Detached, and hasChanges() is what
\* it was.
C38_ThrowLeavesCache ==
  AttachThrew =>
    /\ "_entityGroupMap" \notin lastOp.changed
    /\ lastOp.preState = Detached => entityState[lastOp.ent] = Detached
    /\ "_hasChanges" \notin lastOp.changed

\* C38, for the throws that come before the entity is indexed: the entity
\* passed in is not in the manager after the call
C38_ThrowBeforeIndexing ==
  (AttachThrew /\ entityManager[lastOp.ent] # lastOp.mgr) =>
    /\ "_entityGroupMap" \notin lastOp.changed
    /\ "entityState" \notin lastOp.changed
    /\ "_hasChanges" \notin lastOp.changed

\* C38: the attach threw over a related entity and left the entity it was
\* given in the cache
C38_ThrewAndAttached ==
  /\ AttachThrew
  /\ lastOp.preState = Detached
  /\ entityManager[lastOp.ent] = lastOp.mgr
  /\ entityState[lastOp.ent] = lastOp.state
  /\ lastOp.ent \in CachedEntities(Cur, lastOp.mgr)

\* no entity is held twice by the collection Customer.orders of a Customer
NoDuplicateChild ==
  \A p \in UserEnts : \A i, j \in 1..Len(orders[p]) :
    orders[p][i] = orders[p][j] => i = j

\* C39: whatever attaches, detaches and re-attaches were made, the collection
\* navigation property of a parent holds no child more than once.
C39_NoDuplicateChild ==
  ~ParentToChildIsScalar(Cur) => NoDuplicateChild

\* C39, for the collection that has the inverse Order.customer
C39_NoDuplicateInBidirectional ==
  navShape = "biCollection" => NoDuplicateChild

\* C39: a re-attached parent holds a child twice
C39_ChildHeldTwice ==
  /\ lastOp.op = "attachEntity"
  /\ ~lastOp.threw
  /\ TypeOf(lastOp.ent) = "Customer"
  /\ \E i, j \in 1..Len(orders[lastOp.ent]) :
       i # j /\ orders[lastOp.ent][i] = orders[lastOp.ent][j]

\* the entities some dispatched, unsettled save targets
InFlight == UNION {sv.entitiesToSave : sv \in saves}

\* isBeingSaved is set for exactly the entities of the saves in flight
FlagExact == \A e \in Ents : isBeingSaved[e] <=> e \in InFlight

\* C40: an entity is marked isBeingSaved exactly while a dispatched, unsettled
\* save targets it, whether the saves allow concurrent saves or not; so no save
\* with allowConcurrentSaves = false is dispatched over an entity of a save
\* that is still in flight.
C40_FlagTracksSavesInFlight ==
  /\ FlagExact
  /\ (lastOp.op = "saveChanges" /\ ~lastOp.allowConcurrentSaves
      /\ lastOp.promise = "pending") =>
       \A sv \in saves : sv.id # lastOp.saveId => sv.entitiesToSave \cap lastOp.entities = {}

\* C40, for SpecSave, where every saveChanges is called with
\* allowConcurrentSaves = false
C40_FlagExactWithoutConcurrency == FlagExact

\* C40: a save was settled and left an entity unmarked that another save in
\* flight targets
C40_UnmarkedInFlight ==
  /\ lastOp.op \in {"saveSuccess", "saveFail"}
  /\ \E e \in lastOp.entities : ~isBeingSaved[e] /\ e \in InFlight
====
